----------------------------- MODULE UnityMemory -----------------------------
(***************************************************************************)
(* UnityAssertEqualMemory: blocks of length bytes, an array of them or one *)
(* for all (ARRAY_TO_VAL), compared byte by byte.  One behaviour is one    *)
(* call, made while the test has not failed.                               *)
(***************************************************************************)
EXTENDS Integers, Sequences

CONSTANTS
  Bytes,    \* what memory may hold in a byte
  Lengths,  \* bytes of a block
  Sizes     \* numbers of blocks

\* Assumed of the constants.
MemoryAssumption == Lengths \subseteq Nat /\ Sizes \subseteq Nat

VARIABLES
  call,             \* the arguments, and what the two pointers point to
  ptr_exp, ptr_act, \* bytes from the start of the buffers
  elements, bytes,  \* blocks, and bytes of this block, still to compare
  outcome,          \* "entered", "running", "passed" or "failed"
  report            \* the block and the byte that a failure names

vars == <<call, ptr_exp, ptr_act, elements, bytes, outcome, report>>

Init ==
  /\ call \in UNION {UNION {
       [length : {len}, num_elements : {num}, to_array : {TRUE},
        pointers : {"buffers", "same", "one_null"},
        expected : [0 .. len * num - 1 -> Bytes], actual : [0 .. len * num - 1 -> Bytes]]
       \cup
       [length : {len}, num_elements : {num}, to_array : {FALSE}, pointers : {"buffers"},
        expected : [0 .. len - 1 -> Bytes], actual : [0 .. len * num - 1 -> Bytes]]
         : num \in Sizes} : len \in Lengths}
  /\ ptr_exp = 0 /\ ptr_act = 0
  /\ elements = call.num_elements
  /\ bytes = call.length
  /\ outcome = "entered"
  /\ report = << >>

\* Nothing to compare is an error, two equal pointers are not compared.
Enter ==
  /\ outcome = "entered"
  /\ outcome' = IF elements = 0 \/ bytes = 0 THEN "failed"
                ELSE CASE call.pointers = "same" -> "passed"
                       [] call.pointers = "one_null" -> "failed"
                       [] call.pointers = "buffers" -> "running"
  /\ UNCHANGED <<call, ptr_exp, ptr_act, elements, bytes, report>>

\* Mutant of StepBytes: the expected pointer goes on with the actual one.
StepBytesOn ==
  /\ ptr_exp' = ptr_exp + 1
  /\ ptr_act' = ptr_act + 1

\* Both pointers; the one to a single value goes back at the end of a block.
StepBytes ==
  /\ ptr_exp' = IF bytes = 1 /\ ~call.to_array THEN 0 ELSE ptr_exp + 1
  /\ ptr_act' = ptr_act + 1

\* Mutant of Named: the block is counted from the last one.
NamedFromEnd == <<elements - 1, call.length - bytes>>

\* num_elements - elements - 1 and length - bytes - 1 after both decrements.
Named == <<call.num_elements - elements, call.length - bytes>>

\* A turn of the inner loop, with the outer one's when a block ends.
CompareByte ==
  /\ outcome = "running" /\ elements > 0
  /\ IF call.expected[ptr_exp] # call.actual[ptr_act]
       THEN /\ outcome' = "failed"
            /\ report' = Named
            /\ UNCHANGED <<ptr_exp, ptr_act, elements, bytes>>
       ELSE /\ StepBytes
            /\ bytes' = IF bytes = 1 THEN call.length ELSE bytes - 1
            /\ elements' = IF bytes = 1 THEN elements - 1 ELSE elements
            /\ UNCHANGED <<outcome, report>>
  /\ UNCHANGED call

Finish ==
  /\ outcome = "running" /\ elements = 0
  /\ outcome' = "passed"
  /\ UNCHANGED <<call, ptr_exp, ptr_act, elements, bytes, report>>

Next == Enter \/ CompareByte \/ Finish

Spec == Init /\ [][Next]_vars

-----------------------------------------------------------------------------
\* Do byte b of block e, counted from 0, of the two buffers differ?
Differ(e, b) ==
  call.expected[(IF call.to_array THEN e * call.length ELSE 0) + b]
    # call.actual[e * call.length + b]

Differences == {p \in (0 .. call.num_elements - 1) \X (0 .. call.length - 1) : Differ(p[1], p[2])}

Before(p, q) == p[1] < q[1] \/ (p[1] = q[1] /\ p[2] < q[2])

\* There is nothing to compare.
NothingToCompare == call.num_elements = 0 \/ call.length = 0 \/ call.pointers = "one_null"

(***************************************************************************)
(* The assertion fails exactly when there is nothing to compare or two     *)
(* different buffers differ, and then names the block and the byte in it   *)
(* where the first difference is, though two loops count down and one      *)
(* pointer may go back to its start.                                       *)
(***************************************************************************)
NamesFirstDifference ==
  /\ outcome \in {"passed", "failed"} =>
       (outcome = "failed" <=>
          NothingToCompare \/ (call.pointers = "buffers" /\ Differences # {}))
  /\ outcome = "failed" => (NothingToCompare <=> report = << >>)
  /\ report # << >> => /\ report \in Differences
                       /\ \A p \in Differences : ~Before(p, report)

(***************************************************************************)
(* Both loops stay inside of the two buffers, the expected one being a     *)
(* single block with ARRAY_TO_VAL, and read each byte of actual once.      *)
(***************************************************************************)
StaysInBuffers ==
  outcome = "running" /\ elements > 0 =>
    /\ ptr_exp \in DOMAIN call.expected /\ ptr_act \in DOMAIN call.actual
    /\ ptr_act = (call.num_elements - elements) * call.length + (call.length - bytes)
=============================================================================
