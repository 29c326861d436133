-------------------------------- MODULE Slices --------------------------------
(***************************************************************************)
(* The helpers on slices of strings (backend/schedule.go) that the lists   *)
(* of bookmarks and of push endpoints go through.  A string is a natural   *)
(* number, in the order of sort.Strings.                                   *)
(***************************************************************************)
EXTENDS Naturals, FiniteSets, SequencesExt

(* sort.Strings: at k stands the item that fewer than k are less than, and  *)
(* at least k are not greater than.                                         *)
Sorted(s) ==
  LET Below(x)  == {i \in DOMAIN s : s[i] < x}
      UpTo(x)   == {i \in DOMAIN s : s[i] <= x}
  IN  [k \in DOMAIN s |-> CHOOSE x \in ToSet(s) :
                            Cardinality(Below(x)) < k /\ k <= Cardinality(UpTo(x))]

(* Keeps the first of equal items.                                          *)
unique(items) ==
  LET res[n \in 0..Len(items)] ==
        IF n = 0 THEN <<>>
        ELSE IF Contains(res[n - 1], items[n]) THEN res[n - 1]
        ELSE Append(res[n - 1], items[n])
  IN  res[Len(items)]

(* Takes out of the sorted copy of src one of each of items.                *)
subslice(src, items) ==
  LET res[n \in 0..Len(items)] ==
        IF n = 0 THEN Sorted(src) ELSE RemoveFirst(res[n - 1], items[n])
  IN  res[Len(items)]
===============================================================================
