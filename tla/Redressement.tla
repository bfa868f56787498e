----------------------------- MODULE Redressement -----------------------------
(***************************************************************************)
(* The decision to straighten a page before OCR (_redresser in             *)
(* ai-engine/app/extraction/ocr.py): the lines must be many, agree, and    *)
(* lean enough.  A page is the sequence of the angles of the lines Hough   *)
(* finds on it, vertical ones left out, in hundredths of a degree.         *)
(***************************************************************************)
EXTENDS Integers, Sequences, SequencesExt

MIN_LIGNES_REDRESSEMENT == 8
DISPERSION_MAX_DEGRES == 50
ANGLE_MIN_DEGRES == 15

\* Lines close to the horizontal only.
Horizontales(angles) == SelectSeq(angles, LAMBDA a : -2000 < a /\ a < 2000)

\* Twice the median of a sequence, so that it is an integer.
DoubleMediane(s) ==
  LET triee == SortSeq(s, <)
      n == Len(s)
  IN triee[(n + 1) \div 2] + triee[(n \div 2) + 1]

Absolu(n) == IF n < 0 THEN -n ELSE n

\* The median absolute deviation is compared four times as large.
redressee(angles) ==
  LET h == Horizontales(angles)
      double == DoubleMediane(h)
  IN /\ Len(h) >= MIN_LIGNES_REDRESSEMENT
     /\ DoubleMediane([i \in DOMAIN h |-> Absolu(2 * h[i] - double)]) <= 4 * DISPERSION_MAX_DEGRES
     /\ Absolu(double) >= 2 * ANGLE_MIN_DEGRES
=============================================================================
