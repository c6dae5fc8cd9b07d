---------------------------- MODULE BoundedDeque ----------------------------
(***************************************************************************)
(* What Ring_Buffer.h promises its callers: a double-ended queue of at     *)
(* most Capacity elements.  "The ring buffer will overwrite existing       *)
(* elements of the array if more data is added than there is adequate      *)
(* space": a push into a full queue forgets the element at the other end.  *)
(* Reading or removing from an empty queue gives 0.                        *)
(***************************************************************************)
EXTENDS Integers, Sequences

CONSTANTS Capacity, Values,
          SetIndexes  \* the indexes callers pass to Set, from 0

VARIABLES q,         \* the active elements, front first
          called,    \* the last call and its arguments
          returned   \* what the last pop or get returned

dequeVars == <<q, called, returned>>

Init == q = << >> /\ called = <<"initialize">> /\ returned = 0

Clear == q' = << >> /\ called' = <<"initialize">> /\ UNCHANGED returned

PushBack(v) ==
  /\ called' = <<"push_back", v>>
  /\ q' = Append(IF Len(q) = Capacity THEN Tail(q) ELSE q, v)
  /\ UNCHANGED returned

PushFront(v) ==
  /\ called' = <<"push_front", v>>
  /\ q' = <<v>> \o (IF Len(q) = Capacity THEN SubSeq(q, 1, Capacity - 1) ELSE q)
  /\ UNCHANGED returned

PopBack == /\ q # << >>
           /\ called' = <<"pop_back">>
           /\ returned' = q[Len(q)]
           /\ q' = SubSeq(q, 1, Len(q) - 1)

PopFront == /\ q # << >>
            /\ called' = <<"pop_front">>
            /\ returned' = Head(q)
            /\ q' = Tail(q)

PopEmpty == /\ q = << >>
            /\ called' \in {<<"pop_back">>, <<"pop_front">>}
            /\ returned' = 0
            /\ UNCHANGED q

Get(i) == /\ i + 1 \in 1 .. Len(q)
          /\ called' = <<"get", i>>
          /\ returned' = q[i + 1]
          /\ UNCHANGED q

Set(i, v) == /\ i + 1 \in 1 .. Len(q)
             /\ called' = <<"set", i, v>>
             /\ q' = [q EXCEPT ![i + 1] = v]
             /\ UNCHANGED returned

(* A Set beyond the end changes nothing itself: the elements that it adds, *)
(* if any, arrive one by one as PushBack steps.                            *)
SetBeyond(i, v) == /\ i >= Len(q)
                   /\ called' = <<"set", i, v>>
                   /\ UNCHANGED <<q, returned>>

Next == \/ Clear
        \/ \E v \in Values : PushBack(v) \/ PushFront(v)
        \/ PopBack \/ PopFront \/ PopEmpty
        \/ \E i \in 0 .. Capacity - 1 : Get(i)
        \/ \E i \in SetIndexes, v \in Values : Set(i, v) \/ SetBeyond(i, v)

Spec == Init /\ [][Next]_dequeVars
=============================================================================
