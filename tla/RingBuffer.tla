----------------------------- MODULE RingBuffer -----------------------------
(***************************************************************************)
(* Ring_Buffer.c: a circular array with a start and an end index.  The     *)
(* float and the char variants are the same code; Length stands for        *)
(* RB_LENGTH_F (8) and RB_LENGTH_C (64).                                   *)
(***************************************************************************)
EXTENDS Integers, Sequences

CONSTANTS Length,      \* RB_LENGTH_F or RB_LENGTH_C
          Values,      \* the elements that are stored
          SetIndexes   \* the indexes callers pass to rb_set

ASSUME RingAssumption == /\ Length \in Nat /\ Length >= 2
                         /\ Values \subseteq Int
                         /\ SetIndexes \subseteq Nat

VARIABLES buffer, start_index, end_index,
          setting,    \* the index and value of an rb_set that is extending
                      \* the buffer, or the empty tuple
          called,     \* the last call and its arguments
          returned    \* what the last pop or get returned

ringVars == <<buffer, start_index, end_index, setting, called, returned>>

Slots == 0 .. Length - 1

(* The & RB_MASK_X of the code, for the operands that occur.               *)
Masked(i) == IF i < 0 THEN i + Length ELSE IF i >= Length THEN i - Length ELSE i

rb_length == Masked(end_index - start_index)

Init == /\ buffer = [s \in Slots |-> 0]
        /\ start_index = 0 /\ end_index = 0
        /\ setting = << >> /\ called = <<"initialize">> /\ returned = 0

rb_initialize ==
  /\ called' = <<"initialize">>
  /\ start_index' = 0 /\ end_index' = 0
  /\ UNCHANGED <<buffer, setting, returned>>

(* A push that runs into the other index pushes that one on by one.        *)
Mut_rb_push_back(v) ==
  /\ called' = <<"push_back", v>>
  /\ buffer' = [buffer EXCEPT ![end_index] = v]
  /\ end_index' = Masked(end_index + 1)
  /\ UNCHANGED <<start_index, returned>>
rb_push_back(v) ==
  /\ called' = <<"push_back", v>>
  /\ buffer' = [buffer EXCEPT ![end_index] = v]
  /\ end_index' = Masked(end_index + 1)
  /\ start_index' = IF end_index' = start_index THEN Masked(start_index + 1)
                                               ELSE start_index
  /\ UNCHANGED returned

rb_push_front(v) ==
  /\ called' = <<"push_front", v>>
  /\ start_index' = Masked(start_index - 1)
  /\ buffer' = [buffer EXCEPT ![start_index'] = v]
  /\ end_index' = IF start_index' = end_index THEN Masked(end_index - 1) ELSE end_index
  /\ UNCHANGED returned

rb_pop_back ==
  /\ called' = <<"pop_back">>
  /\ IF start_index # end_index
     THEN /\ end_index' = Masked(end_index - 1)
          /\ returned' = buffer[end_index']
     ELSE returned' = 0 /\ UNCHANGED end_index
  /\ UNCHANGED <<buffer, start_index>>

rb_pop_front ==
  /\ called' = <<"pop_front">>
  /\ IF end_index # start_index
     THEN /\ start_index' = Masked(start_index + 1)
          /\ returned' = buffer[Masked(start_index' - 1)]
     ELSE returned' = 0 /\ UNCHANGED start_index
  /\ UNCHANGED <<buffer, end_index>>

(* Every caller reads an active element.                                   *)
rb_get(i) ==
  /\ called' = <<"get", i>>
  /\ returned' = buffer[Masked(start_index + i)]
  /\ UNCHANGED <<buffer, start_index, end_index>>

(* rb_set inside the active length overwrites; an index the array cannot   *)
(* hold does nothing; otherwise the while loop of rb_set_Loop begins.      *)
Mut_Outside(i) == i > Length
Outside(i) == i >= Length
rb_set(i, v) ==
  /\ called' = <<"set", i, v>>
  /\ buffer' = IF i < rb_length THEN [buffer EXCEPT ![Masked(start_index + i)] = v]
                               ELSE buffer
  /\ setting' = IF i >= rb_length /\ ~Outside(i) THEN <<i, v>> ELSE << >>
  /\ UNCHANGED <<start_index, end_index, returned>>

(* while (index >= rb_length(p_buf)) rb_push_back(p_buf, value)            *)
rb_set_Loop ==
  /\ setting # << >>
  /\ \/ setting[1] >= rb_length /\ rb_push_back(setting[2]) /\ UNCHANGED setting
     \/ /\ setting[1] < rb_length /\ setting' = << >>
        /\ UNCHANGED <<buffer, start_index, end_index, called, returned>>

Call == /\ setting = << >>
        /\ \/ rb_initialize
           \/ /\ UNCHANGED setting
              /\ \/ \E v \in Values : rb_push_back(v) \/ rb_push_front(v)
                 \/ rb_pop_back \/ rb_pop_front
                 \/ \E i \in 0 .. rb_length - 1 : rb_get(i)
           \/ \E i \in SetIndexes, v \in Values : rb_set(i, v)

Next == Call \/ rb_set_Loop

(* The loop of rb_set runs to its end: nothing else runs meanwhile.        *)
Spec == Init /\ [][Next]_ringVars /\ WF_ringVars(rb_set_Loop)

-----------------------------------------------------------------------------
RingTypeOK == /\ buffer \in [Slots -> Values \cup {0}]
              /\ start_index \in Slots /\ end_index \in Slots
              /\ setting \in {<< >>} \cup (SetIndexes \X Values)
              /\ called \in {<<"initialize">>, <<"pop_back">>, <<"pop_front">>}
                           \cup ({"push_back", "push_front"} \X Values)
                           \cup ({"get"} \X Slots)
                           \cup ({"set"} \X SetIndexes \X Values)
              /\ returned \in Values \cup {0}

(* The active elements, front first.                                       *)
ContentsOf(b, s, e) == [i \in 1 .. Masked(e - s) |-> b[Masked(s + i - 1)]]
Contents == ContentsOf(buffer, start_index, end_index)

Deque == INSTANCE BoundedDeque WITH Capacity <- Length - 1, q <- Contents

(* The ring is the bounded double-ended queue of Ring_Buffer.h: whatever   *)
(* the order of pushes and pops at both ends, through every wrap of the    *)
(* two indexes, elements come out in place, and only a push into a full    *)
(* buffer forgets one, at the opposite end.                                *)
ImplementsDeque == Deque!Spec

(* An rb_set that has to lengthen the buffer returns (for the indexes that *)
(* SetIndexes allows: the buffer never gets longer than Length - 1, so the *)
(* loop for index Length - 1 would not).                                   *)
SetReturns == setting # << >> ~> setting = << >>
=============================================================================
