----------------------------- MODULE Validateurs ------------------------------
(***************************************************************************)
(* The validators of the rules (ai-engine/app/detection/validators.py).    *)
(*                                                                         *)
(* A value is the sequence of its characters, separators left out: 0..9    *)
(* are the digits, 10..35 the letters A to Z, PLUS the sign of a           *)
(* telephone number.  The value of a date is <<day, month, year>> as they   *)
(* are written; a month in full is its number.                             *)
(***************************************************************************)
EXTENDS Integers, Sequences, FiniteSets

PLUS == 36

Chiffres == 0..9
Majuscules == 10..35

SontChiffres(v) == v # <<>> /\ \A i \in DOMAIN v : v[i] \in Chiffres

Prefixe(v, n) == SubSeq(v, 1, n)
Reste(v, n) == SubSeq(v, n + 1, Len(v))

-----------------------------------------------------------------------------
(* IBAN *)

\* Countries by the length of their IBAN; of any other one no length is required.
LONGUEURS_IBAN ==
  [SN |-> 28, BJ |-> 28, TG |-> 28, CI |-> 28, BF |-> 28, ML |-> 28, NE |-> 28, GW |-> 28,
   CM |-> 27, GA |-> 27, CD |-> 27, FR |-> 27, BE |-> 16, DE |-> 22, ES |-> 24, IT |-> 27,
   PT |-> 25, NL |-> 18, LU |-> 20, CH |-> 21, GB |-> 22, MA |-> 28, TN |-> 24, DZ |-> 26]

CodesPays ==
  [SN |-> <<28, 23>>, BJ |-> <<11, 19>>, TG |-> <<29, 16>>, CI |-> <<12, 18>>,
   BF |-> <<11, 15>>, ML |-> <<22, 21>>, NE |-> <<23, 14>>, GW |-> <<16, 32>>,
   CM |-> <<12, 22>>, GA |-> <<16, 10>>, CD |-> <<12, 13>>, FR |-> <<15, 27>>,
   BE |-> <<11, 14>>, DE |-> <<13, 14>>, ES |-> <<14, 28>>, IT |-> <<18, 29>>,
   PT |-> <<25, 29>>, NL |-> <<23, 21>>, LU |-> <<21, 30>>, CH |-> <<12, 17>>,
   GB |-> <<16, 11>>, MA |-> <<22, 10>>, TN |-> <<29, 23>>, DZ |-> <<13, 35>>]

FormeIban(v) ==
  /\ Len(v) \in 15..34
  /\ \A i \in {1, 2} : v[i] \in Majuscules
  /\ \A i \in {3, 4} : v[i] \in Chiffres
  /\ \A i \in 5..Len(v) : v[i] \in Chiffres \union Majuscules

\* Remainder by 97 of the number a value spells, a letter being two digits.
Modulo97(v) ==
  LET reste[i \in 0..Len(v)] ==
        IF i = 0 THEN 0
        ELSE (reste[i - 1] * (IF v[i] \in Majuscules THEN 100 ELSE 10) + v[i]) % 97
  IN reste[Len(v)]

iban_valide(v) ==
  /\ FormeIban(v)
  /\ \A p \in DOMAIN CodesPays : Prefixe(v, 2) = CodesPays[p] => Len(v) = LONGUEURS_IBAN[p]
  /\ Modulo97(Reste(v, 4) \o Prefixe(v, 4)) = 1

-----------------------------------------------------------------------------
(* Card *)

\* Mutant: a doubled digit is not brought back to one digit.
ChiffreDouble(v, i) == IF (Len(v) - i) % 2 = 1 THEN 2 * v[i] ELSE v[i]

\* What the digit at place i adds: every second one from the right is doubled.
ChiffreLuhn(v, i) ==
  LET double == 2 * v[i]
  IN IF (Len(v) - i) % 2 = 0 THEN v[i] ELSE IF double > 9 THEN double - 9 ELSE double

luhn_valide(v) ==
  /\ SontChiffres(v) /\ Len(v) \in 13..19
  /\ \E i \in DOMAIN v : v[i] # v[1]
  /\ LET total[i \in 0..Len(v)] == IF i = 0 THEN 0 ELSE total[i - 1] + ChiffreLuhn(v, i)
     IN total[Len(v)] % 10 = 0

-----------------------------------------------------------------------------
(* Telephone *)

\* The national lengths of each dialling code, without the code.
LONGUEURS_NATIONALES ==
  { [indicatif |-> <<2, 2, 1>>, longueurs |-> {9}], [indicatif |-> <<2, 2, 9>>, longueurs |-> {8, 10}],
    [indicatif |-> <<2, 2, 8>>, longueurs |-> {8}], [indicatif |-> <<2, 2, 5>>, longueurs |-> {10}],
    [indicatif |-> <<2, 3, 3>>, longueurs |-> {9}], [indicatif |-> <<2, 2, 6>>, longueurs |-> {8}],
    [indicatif |-> <<2, 2, 3>>, longueurs |-> {8}], [indicatif |-> <<2, 2, 7>>, longueurs |-> {8}],
    [indicatif |-> <<2, 3, 4>>, longueurs |-> {10}], [indicatif |-> <<3, 3>>, longueurs |-> {9}] }

\* 00 stands for the sign; no code is the beginning of another.
telephone_valide(v) ==
  LET international == IF Len(v) >= 2 /\ Prefixe(v, 2) = <<0, 0>> THEN <<PLUS>> \o Reste(v, 2) ELSE v
      chiffres == IF international # <<>> /\ international[1] = PLUS
                  THEN Tail(international) ELSE international
      pays == {l \in LONGUEURS_NATIONALES :
                 Len(chiffres) >= Len(l.indicatif) /\ Prefixe(chiffres, Len(l.indicatif)) = l.indicatif}
  IN /\ SontChiffres(chiffres)
     /\ IF chiffres = international THEN Len(chiffres) \in 8..10
        ELSE IF pays = {} THEN Len(chiffres) \in 8..15
        ELSE \E l \in pays : Len(chiffres) - Len(l.indicatif) \in l.longueurs

-----------------------------------------------------------------------------
(* Date of birth *)

ANNEE_MIN == 1900

\* In digits, a year below 100 is before 2000 above 30.  (A year of four digits
\* below 100, in full or in the ISO form, is left out.)
AnneeLue(annee) ==
  IF annee >= 100 THEN annee ELSE IF annee > 30 THEN 1900 + annee ELSE 2000 + annee

JoursDuMois(mois, annee) ==
  CASE mois \in {4, 6, 9, 11} -> 30
    [] mois = 2 -> IF (annee % 4 = 0 /\ annee % 100 # 0) \/ annee % 400 = 0 THEN 29 ELSE 28
    [] OTHER -> 31

\* _date_ou_none: there is such a day.
DateReelle(jour, mois, annee) ==
  annee \in 1..9999 /\ mois \in 1..12 /\ jour \in 1..JoursDuMois(mois, annee)

\* Order of dates.
Rang(jour, mois, annee) == (annee * 12 + mois) * 31 + jour

date_naissance_valide(v, aujourdhui) ==
  LET annee == AnneeLue(v[3])
  IN /\ DateReelle(v[1], v[2], annee)
     /\ annee >= ANNEE_MIN
     /\ Rang(v[1], v[2], annee) <= Rang(aujourdhui[1], aujourdhui[2], aujourdhui[3])

-----------------------------------------------------------------------------
(* Identity documents *)

\* Length and first characters, by country; without a country any of them will do.
FORMATS_PIECE ==
  {[longueur |-> 13, premiers |-> {1, 2}], [longueur |-> 10, premiers |-> Chiffres \union Majuscules],
   [longueur |-> 13, premiers |-> Chiffres \union Majuscules], [longueur |-> 11, premiers |-> {12}]}

piece_identite_valide(v) ==
  Len(v) >= 8 /\ \E f \in FORMATS_PIECE : Len(v) = f.longueur /\ v[1] \in f.premiers
=============================================================================
