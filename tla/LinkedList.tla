------------------------------ MODULE LinkedList ------------------------------
(***************************************************************************)
(* The doubly linked lists of the experiment (util/LinkedList.js) as       *)
(* operators on a heap h: the nodes' next, prev and obj, the head, tail    *)
(* and count of every list, and the pool of nodes that all lists share.    *)
(***************************************************************************)
EXTENDS Naturals, Sequences, FiniteSets, SequencesExt

Null == 0

Empty(lists) == [next |-> << >>, prev |-> << >>, obj |-> << >>,
                 head |-> [l \in lists |-> Null], tail |-> [l \in lists |-> Null],
                 count |-> [l \in lists |-> 0], nodePool |-> << >>]

getNode_(h) == IF h.nodePool # << >> THEN Last(h.nodePool) ELSE Len(h.next) + 1

returnNode_(h, n) ==
  [h EXCEPT !.next[n] = Null, !.prev[n] = Null, !.obj[n] = Null,
            !.nodePool = Append(@, n)]

makeNode_(h, o) ==
  IF h.nodePool # << >>
  THEN [h EXCEPT !.nodePool = Front(@), !.obj[getNode_(h)] = o]
  ELSE [h EXCEPT !.next = Append(@, Null), !.prev = Append(@, Null),
                 !.obj = Append(@, o)]

push(h, l, o) ==
  LET n == getNode_(h)
      t == h.tail[l]
      g == makeNode_(h, o)
      Linked == IF t = Null THEN g.next ELSE [g.next EXCEPT ![t] = n]
  IN  [g EXCEPT !.prev[n] = t, !.next = [Linked EXCEPT ![n] = Null],
                !.tail[l] = n, !.head[l] = IF @ = Null THEN n ELSE @,
                !.count[l] = @ + 1]

unshift(h, l, o) ==
  LET n == getNode_(h)
      s == h.head[l]
      g == makeNode_(h, o)
      Linked == IF s = Null THEN g.prev ELSE [g.prev EXCEPT ![s] = n]
  IN  [g EXCEPT !.next[n] = s, !.prev = [Linked EXCEPT ![n] = Null],
                !.head[l] = n, !.tail[l] = IF @ = Null THEN n ELSE @,
                !.count[l] = @ + 1]

isEmpty(h, l) == h.count[l] = 0

(* The nodes from one on, along next or prev.                               *)
Chain(links, from) ==
  LET at[k \in 0..Len(links)] ==
        IF k = 0 THEN from ELSE IF at[k - 1] = Null THEN Null ELSE links[at[k - 1]]
  IN  SelectSeq([k \in 1..(Len(links) + 1) |-> at[k - 1]], LAMBDA n : n # Null)

(* The first node with the object is taken out and given back to the pool.  *)
remove(h, l, o) ==
  LET with == SelectSeq(Chain(h.next, h.head[l]), LAMBDA m : h.obj[m] = o)
      n    == with[1]
      p    == h.prev[n]
      q    == h.next[n]
      g    == [h EXCEPT !.head[l] = IF p = Null THEN q ELSE @,
                        !.next = IF p = Null THEN @ ELSE [@ EXCEPT ![p] = q],
                        !.tail[l] = IF q = Null THEN p ELSE @,
                        !.prev = IF q = Null THEN @ ELSE [@ EXCEPT ![q] = p],
                        !.count[l] = @ - 1]
  IN  IF with = << >> THEN h ELSE returnNode_(g, n)

pop(h, l)   == IF isEmpty(h, l) THEN h ELSE remove(h, l, h.obj[h.tail[l]])
shift(h, l) == IF isEmpty(h, l) THEN h ELSE remove(h, l, h.obj[h.head[l]])

------------------------------------------------------------------------------
Nodes(h, l) == Chain(h.next, h.head[l])
Items(h, l) == [k \in DOMAIN Nodes(h, l) |-> h.obj[Nodes(h, l)[k]]]

(* Forwards and backwards a list has the same nodes, as many as it counts,  *)
(* and every node is in one list or in the pool, once.                      *)
WellFormed(h) ==
  LET lists == DOMAIN h.head
  IN  /\ \A l \in lists : /\ Chain(h.prev, h.tail[l]) = Reverse(Nodes(h, l))
                          /\ Len(Nodes(h, l)) = h.count[l]
      /\ \A n \in DOMAIN h.next :
           \/ n \in ToSet(h.nodePool) /\ \A l \in lists : n \notin ToSet(Nodes(h, l))
           \/ n \notin ToSet(h.nodePool)
              /\ Cardinality({l \in lists : n \in ToSet(Nodes(h, l))}) = 1
      /\ IsInjective(h.nodePool)

(* The operations are those of a sequence without duplicates.               *)
ListIsSequence(s, o) ==
  LET h == FoldLeft(LAMBDA g, x : push(g, "l", x), Empty({"l"}), s)
      g == unshift(remove(h, "l", o), "l", o)
  IN  /\ Items(h, "l") = s
      /\ Items(remove(h, "l", o), "l") = SelectSeq(s, LAMBDA x : x # o)
      /\ Items(g, "l") = <<o>> \o SelectSeq(s, LAMBDA x : x # o)
      /\ Items(shift(h, "l"), "l") = IF s = << >> THEN s ELSE Tail(s)
      /\ Items(pop(h, "l"), "l") = IF s = << >> THEN s ELSE Front(s)
      /\ WellFormed(g) /\ WellFormed(shift(g, "l")) /\ WellFormed(pop(g, "l"))
===============================================================================
