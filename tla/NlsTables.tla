----------------------------- MODULE NlsTables -----------------------------
(* How the translation tables of libunls are written down here.            *)
EXTENDS Naturals, Sequences, TLC

\* The lower half of charset2uni, where it is ASCII
Ascii == [b \in 1 .. 128 |-> b - 1]

\* The values of the keys first .. end: those of stretches <<first key, first
\* value, length>>, in the order of their keys, within each of which the values
\* are consecutive, and zero between them
Stretches(runs, first, end) ==
  LET Zeros(n) == [i \in 1 .. n |-> 0]
      upto[i \in 0 .. Len(runs)] ==
        IF i = 0 THEN <<>>
        ELSE LET prev == upto[i - 1]
                 r    == runs[i]
             IN  prev \o Zeros(r[1] - first - Len(prev))
                      \o [k \in 1 .. r[3] |-> r[2] + k - 1]
      all == upto[Len(runs)]
  IN  all \o Zeros(end + 1 - first - Len(all))

\* The upper half of charset2uni, where it has long stretches
Upper(runs) == Stretches(runs, 128, 255)

\* A page of 256 bytes, by the low byte of the code point: the characters
Page(runs) == Stretches(runs, 0, 255)

\* struct nls_table.  page_uni2charset has no entry where the array in the
\* source is NULL.
Table(name, charset2uni, page_uni2charset) ==
  [charset |-> name, charset2uni |-> charset2uni,
   page_uni2charset |-> page_uni2charset]
=============================================================================
