----------------------------- MODULE UnityProofs -----------------------------
(***************************************************************************)
(* Proofs about Unity's assertions: for every width of a byte, every       *)
(* precision of a float and buffers of every size, what UnityChecks states *)
(* of them.  Each part has an invariant that says what its loops have      *)
(* compared so far; the lemmas before it say what its arithmetic computes, *)
(* where it wraps around, overflows or extends a sign.                     *)
(***************************************************************************)
EXTENDS UnityChecks, SequenceTheorems, FiniteSetTheorems, TLAPS

-----------------------------------------------------------------------------
(* UnityAssertEqualMemory.                                                  *)

LEMMA OffsetInside ==
  ASSUME NEW num \in Nat, NEW l \in Nat, NEW e \in 0 .. num - 1, NEW b \in 0 .. l - 1
  PROVE  /\ e * l + b \in 0 .. l * num - 1
         /\ b = l - 1 => e * l + b + 1 = (e + 1) * l
<1>1. e * l <= (num - 1) * l
  BY Z3
<1>2. (num - 1) * l = l * num - l
  BY Z3
<1>3. e * l \in Nat /\ l * num \in Nat
  BY Z3
<1>4. (e + 1) * l = e * l + l
  BY Z3
<1> QED
  BY <1>1, <1>2, <1>3, <1>4, Z3

MemoryCall(c) ==
  /\ c.length \in Nat /\ c.num_elements \in Nat /\ c.to_array \in BOOLEAN
  /\ c.pointers \in {"buffers", "same", "one_null"}
  /\ c.to_array \/ c.pointers = "buffers"
  /\ c.to_array => DOMAIN c.expected = 0 .. c.length * c.num_elements - 1
  /\ ~c.to_array => DOMAIN c.expected = 0 .. c.length - 1
  /\ DOMAIN c.actual = 0 .. c.length * c.num_elements - 1

\* What has been compared when the loops are at byte b of block e.
MemoryLoop(e, b) ==
  /\ bytes = call.length - b
  /\ elements = call.num_elements - e
  /\ ptr_act = e * call.length + b
  /\ call.to_array => ptr_exp = ptr_act
  /\ ~call.to_array => ptr_exp = b
  /\ \A p \in Memory!Differences : ~Memory!Before(p, <<e, b>>)

MemoryInv ==
  /\ MemoryCall(call)
  /\ outcome \in {"entered", "running", "passed", "failed"}
  /\ outcome \in {"entered", "running"} =>
       /\ \E e \in 0 .. call.num_elements, b \in 0 .. call.length :
            /\ outcome = "running" => b < call.length
            /\ outcome = "entered" \/ e = call.num_elements => b = 0
            /\ outcome = "entered" => e = 0
            /\ MemoryLoop(e, b)
       /\ report = << >>
  /\ outcome = "running" => call.pointers = "buffers" /\ ~Memory!NothingToCompare
  /\ Memory!NamesFirstDifference

LEMMA MemoryStarts ==
  ASSUME Memory!MemoryAssumption, Memory!Init
  PROVE  MemoryInv
<1>1. MemoryCall(call)
  <2> DEFINE Calls(len, num) ==
        [length : {len}, num_elements : {num}, to_array : {TRUE},
         pointers : {"buffers", "same", "one_null"},
         expected : [0 .. len * num - 1 -> MemoryBytes],
         actual : [0 .. len * num - 1 -> MemoryBytes]]
        \cup
        [length : {len}, num_elements : {num}, to_array : {FALSE}, pointers : {"buffers"},
         expected : [0 .. len - 1 -> MemoryBytes],
         actual : [0 .. len * num - 1 -> MemoryBytes]]
  <2>3. call \in UNION {UNION {Calls(len, num) : num \in MemorySizes} : len \in MemoryLengths}
    BY DEF Memory!Init
  <2>1. PICK num \in MemorySizes, len \in MemoryLengths : call \in Calls(len, num)
    <3> HIDE DEF Calls
    <3> QED
      BY <2>3
  <2>2. num \in Nat /\ len \in Nat
    BY DEF Memory!MemoryAssumption
  <2> QED
    BY <2>1, <2>2 DEF MemoryCall
<1>2. MemoryLoop(0, 0) /\ report = << >> /\ outcome = "entered"
  <2>1. \A p \in Memory!Differences : ~Memory!Before(p, <<0, 0>>)
    BY DEF Memory!Differences, Memory!Before
  <2> QED
    BY <1>1, <2>1 DEF MemoryCall, MemoryLoop, Memory!Init
<1> QED
  BY <1>1, <1>2 DEF MemoryInv, MemoryCall, Memory!NamesFirstDifference

\* Nothing differs before the next byte if nothing did before this one, and
\* these two do not.
LEMMA MemoryMatched ==
  ASSUME MemoryCall(call),
         NEW e \in 0 .. call.num_elements - 1, NEW b \in 0 .. call.length - 1,
         MemoryLoop(e, b), ~Memory!Differ(e, b)
  PROVE  \A p \in Memory!Differences :
           /\ ~Memory!Before(p, <<e, b + 1>>)
           /\ b = call.length - 1 => ~Memory!Before(p, <<e + 1, 0>>)
<1> SUFFICES ASSUME NEW p \in Memory!Differences
             PROVE  /\ ~Memory!Before(p, <<e, b + 1>>)
                    /\ b = call.length - 1 => ~Memory!Before(p, <<e + 1, 0>>)
  OBVIOUS
<1>1. PICK f \in 0 .. call.num_elements - 1, c \in 0 .. call.length - 1 :
        p = <<f, c>> /\ Memory!Differ(f, c)
  BY DEF Memory!Differences
<1>2. f # e \/ c # b
  BY <1>1
<1>3. ~(f < e \/ (f = e /\ c < b))
  BY <1>1 DEF MemoryLoop, Memory!Before
<1> QED
  BY <1>1, <1>2, <1>3 DEF MemoryCall, Memory!Before

LEMMA MemoryPosition ==
  ASSUME MemoryCall(call),
         NEW e \in 0 .. call.num_elements, NEW b \in 0 .. call.length - 1, MemoryLoop(e, b)
  PROVE  e = call.num_elements - elements /\ b = call.length - bytes
<1>1. elements = call.num_elements - e /\ bytes = call.length - b
  BY DEF MemoryLoop
<1>2. call.num_elements \in Nat /\ call.length \in Nat
  BY DEF MemoryCall
<1> QED
  BY <1>1, <1>2, Z3

LEMMA MemoryReads ==
  ASSUME MemoryCall(call),
         NEW e \in 0 .. call.num_elements - 1, NEW b \in 0 .. call.length - 1,
         MemoryLoop(e, b)
  PROVE  /\ ptr_exp \in DOMAIN call.expected /\ ptr_act \in DOMAIN call.actual
         /\ Memory!Differ(e, b) <=> call.expected[ptr_exp] # call.actual[ptr_act]
<1>1. e * call.length + b \in 0 .. call.length * call.num_elements - 1
  BY OffsetInside DEF MemoryCall
<1>2. call.to_array \in BOOLEAN
  BY DEF MemoryCall
<1>3. CASE call.to_array
  BY <1>1, <1>3 DEF MemoryCall, MemoryLoop, Memory!Differ
<1>4. CASE ~call.to_array
  BY <1>1, <1>4 DEF MemoryCall, MemoryLoop, Memory!Differ
<1> QED
  BY <1>2, <1>3, <1>4

LEMMA MemorySteps ==
  ASSUME MemoryInv, Memory!Next
  PROVE  MemoryInv'
<1> USE DEF MemoryInv
<1>1. /\ MemoryCall(call) /\ call' = call
      /\ MemoryCall(call)'
      /\ Memory!Differences' = Memory!Differences
      /\ Memory!NothingToCompare' = Memory!NothingToCompare
  BY DEF Memory!Next, Memory!Enter, Memory!CompareByte, Memory!Finish, MemoryCall,
         Memory!Differences, Memory!Differ, Memory!NothingToCompare
<1>2. CASE Memory!Enter
  <2>1. MemoryLoop(0, 0)
    <3>1. PICK e \in 0 .. call.num_elements, b \in 0 .. call.length :
            e = 0 /\ b = 0 /\ MemoryLoop(e, b)
      BY <1>2 DEF Memory!Enter
    <3> QED
      BY <3>1
  <2>2. MemoryLoop(0, 0)'
    BY <1>1, <1>2, <2>1 DEF MemoryLoop, Memory!Enter
  <2>3. elements = call.num_elements /\ bytes = call.length
    BY <1>1, <2>1 DEF MemoryLoop, MemoryCall
  <2>4. outcome' = "running" => 0 < call.length /\ 0 < call.num_elements /\ call.pointers = "buffers"
    BY <1>1, <1>2, <2>3 DEF Memory!Enter, MemoryCall
  <2>5. /\ outcome' = "passed" => call.pointers = "same"
        /\ outcome' = "failed" <=> Memory!NothingToCompare
    BY <1>1, <1>2, <2>3 DEF Memory!Enter, MemoryCall, Memory!NothingToCompare
  <2>6. outcome' \in {"running", "passed", "failed"} /\ report' = << >>
    BY <1>1, <1>2 DEF Memory!Enter, MemoryCall
  <2>7. Memory!NamesFirstDifference'
    BY <1>1, <2>5, <2>6 DEF Memory!NamesFirstDifference
  <2> QED
    BY <1>1, <2>2, <2>4, <2>5, <2>6, <2>7 DEF MemoryCall
<1>3. CASE Memory!CompareByte
  <2>1. PICK e \in 0 .. call.num_elements, b \in 0 .. call.length - 1 : MemoryLoop(e, b)
    BY <1>1, <1>3 DEF Memory!CompareByte, MemoryCall
  <2>2. e \in 0 .. call.num_elements - 1
    BY <1>1, <1>3, <2>1 DEF Memory!CompareByte, MemoryLoop, MemoryCall
  <2>3. /\ report = << >> /\ call.pointers = "buffers" /\ outcome = "running"
        /\ ~Memory!NothingToCompare
    BY <1>3 DEF Memory!CompareByte
  <2>4. CASE Memory!Differ(e, b)
    <3>1. outcome' = "failed" /\ report' = <<e, b>>
      BY <1>1, <1>3, <2>1, <2>2, <2>4, MemoryReads, MemoryPosition
      DEF Memory!CompareByte, Memory!Named
    <3>2. <<e, b>> \in Memory!Differences
      BY <2>2, <2>4 DEF Memory!Differences
    <3>3. Memory!NamesFirstDifference'
      BY <1>1, <2>1, <2>3, <3>1, <3>2 DEF Memory!NamesFirstDifference, MemoryLoop, Memory!Before
    <3> QED
      BY <1>1, <3>1, <3>3
  <2>5. CASE ~Memory!Differ(e, b)
    <3>1. /\ outcome' = "running" /\ report' = << >> /\ Memory!StepBytes
          /\ bytes' = IF bytes = 1 THEN call.length ELSE bytes - 1
          /\ elements' = IF bytes = 1 THEN elements - 1 ELSE elements
      BY <1>1, <1>3, <2>1, <2>2, <2>3, <2>5, MemoryReads DEF Memory!CompareByte
    <3>2. \A p \in Memory!Differences :
            /\ ~Memory!Before(p, <<e, b + 1>>)
            /\ b = call.length - 1 => ~Memory!Before(p, <<e + 1, 0>>)
      BY <1>1, <2>1, <2>2, <2>5, MemoryMatched
    <3>3. Memory!NamesFirstDifference'
      BY <3>1 DEF Memory!NamesFirstDifference
    <3>4. call.length \in Nat /\ call.num_elements \in Nat /\ call.to_array \in BOOLEAN
      BY <1>1 DEF MemoryCall
    <3> DEFINE at == e * call.length
    <3>5. at \in Nat
      BY <3>4
    <3>8. /\ elements = call.num_elements - e /\ bytes = call.length - b /\ ptr_act = at + b
          /\ call.to_array => ptr_exp = ptr_act
          /\ ~call.to_array => ptr_exp = b
      BY <2>1 DEF MemoryLoop
    <3>9. /\ b = call.length - 1 => at + b + 1 = (e + 1) * call.length
      BY <2>2, <3>4, OffsetInside
    <3> HIDE DEF at
    <3>6. CASE b = call.length - 1
      <4>1. bytes = 1
        BY <2>1, <3>4, <3>6 DEF MemoryLoop
      <4>2. at + b + 1 = (e + 1) * call.length
        BY <3>6, <3>9
      <4>3. MemoryLoop(e + 1, 0)'
        <5>1. /\ bytes' = call.length
              /\ ptr_act' = at + b + 1
              /\ call.to_array => ptr_exp' = ptr_act'
              /\ ~call.to_array => ptr_exp' = 0
          BY <3>1, <3>8, <4>1 DEF Memory!StepBytes
        <5>3. elements' = call.num_elements - (e + 1)
          <6>1. elements' = (call.num_elements - e) - 1
            BY <3>1, <3>8, <4>1
          <6> QED
            BY <2>2, <3>4, <6>1
        <5>2. (e + 1) * call.length + 0 = (e + 1) * call.length /\ call.length - 0 = call.length
          BY <3>4
        <5> QED
          BY <1>1, <3>2, <3>4, <3>6, <4>2, <5>1, <5>2, <5>3 DEF MemoryLoop
      <4> QED
        BY <1>1, <2>2, <2>3, <3>1, <3>3, <3>4, <3>6, <4>3
    <3>7. CASE b # call.length - 1
      <4>1. bytes # 1
        BY <2>1, <3>4, <3>7 DEF MemoryLoop
      <4>2. MemoryLoop(e, b + 1)'
        <5>1. /\ bytes' = call.length - (b + 1) /\ elements' = call.num_elements - e
              /\ ptr_act' = at + (b + 1)
              /\ ptr_exp' = IF call.to_array THEN ptr_act' ELSE b + 1
          BY <2>2, <3>1, <3>4, <3>5, <3>7, <3>8, <4>1 DEF Memory!StepBytes
        <5> QED
          BY <1>1, <3>2, <5>1 DEF MemoryLoop, at
      <4>3. b + 1 \in 0 .. call.length /\ b + 1 < call.length /\ e # call.num_elements
        BY <2>2, <3>4, <3>7
      <4> QED
        BY <1>1, <2>2, <2>3, <3>1, <3>3, <4>2, <4>3
    <3> QED
      BY <3>6, <3>7
  <2> QED
    BY <2>4, <2>5
<1>4. CASE Memory!Finish
  <2>1. PICK e \in 0 .. call.num_elements, b \in 0 .. call.length - 1 : MemoryLoop(e, b)
    BY <1>1, <1>4 DEF Memory!Finish, MemoryCall
  <2>2. e = call.num_elements
    BY <1>1, <1>4, <2>1 DEF Memory!Finish, MemoryLoop, MemoryCall
  <2>3. Memory!Differences = {}
    BY <1>1, <2>1, <2>2 DEF MemoryLoop, Memory!Differences, Memory!Before, MemoryCall
  <2>4. /\ outcome' = "passed" /\ outcome = "running" /\ report' = report /\ report = << >>
        /\ ~Memory!NothingToCompare'
    BY <1>1, <1>4 DEF Memory!Finish
  <2> QED
    BY <1>1, <2>3, <2>4 DEF Memory!NamesFirstDifference
<1> QED
  BY <1>2, <1>3, <1>4 DEF Memory!Next

LEMMA MemoryStutters ==
  ASSUME MemoryInv, UNCHANGED Memory!vars
  PROVE  MemoryInv'
<1>1. /\ call' = call /\ outcome' = outcome /\ report' = report /\ bytes' = bytes
      /\ elements' = elements /\ ptr_act' = ptr_act /\ ptr_exp' = ptr_exp
  BY DEF Memory!vars
<1>2. Memory!Differences' = Memory!Differences
  BY <1>1 DEF Memory!Differences, Memory!Differ
<1> QED
  BY <1>1, <1>2
  DEF MemoryInv, MemoryCall, MemoryLoop, Memory!NamesFirstDifference, Memory!NothingToCompare

LEMMA MemoryInside == MemoryInv => Memory!StaysInBuffers
<1> SUFFICES ASSUME MemoryInv, outcome = "running", elements > 0
             PROVE  /\ ptr_exp \in DOMAIN call.expected /\ ptr_act \in DOMAIN call.actual
                    /\ ptr_act = (call.num_elements - elements) * call.length
                                   + (call.length - bytes)
  BY DEF Memory!StaysInBuffers
<1>1. MemoryCall(call)
  BY DEF MemoryInv
<1>2. PICK e \in 0 .. call.num_elements, b \in 0 .. call.length - 1 : MemoryLoop(e, b)
  BY <1>1 DEF MemoryInv, MemoryCall
<1>3. e \in 0 .. call.num_elements - 1
  BY <1>1, <1>2 DEF MemoryLoop, MemoryCall
<1>4. e = call.num_elements - elements /\ b = call.length - bytes
  BY <1>1, <1>2, MemoryPosition
<1> QED
  BY <1>1, <1>2, <1>3, <1>4, MemoryReads DEF MemoryLoop
-----------------------------------------------------------------------------
(* UnityAssertEqualString, UnityAssertEqualStringLen, _StringArray.         *)

\* The strings that a call may pass.
TextArguments(c) == IF c.kind = "len" THEN Texts!StringsOfLength(c.length) ELSE Texts!Strings

TextCall(c) ==
  /\ c.kind \in {"string", "len", "array", "each"}
  /\ c.actual \in Seq(TextArguments(c)) /\ c.expected \in Seq(TextArguments(c))
  /\ Len(c.expected) = IF c.kind = "each" THEN 1 ELSE Len(c.actual)
  /\ c.kind \in {"string", "len"} => Len(c.actual) = 1
  /\ c.kind = "len" => c.length \in Nat
  /\ c.kind = "array" => c.pointers \in {"arrays", "same", "expected_null", "actual_null"}
  /\ c.kind = "each" => c.pointers \in {"arrays", "actual_null"}

\* e and a agree on their first h characters, and none of those ends them.
Agree(e, a, h) ==
  \A l \in 0 .. h - 1 : l \in DOMAIN e /\ l \in DOMAIN a /\ e[l] = a[l] /\ e[l] # 0

\* What has been compared when the loops are at character i of element j.
TextLoop ==
  /\ ~Texts!NothingToCompare /\ ~Texts!SameArrays
  /\ j \in 1 .. Len(call.actual)
  /\ i \in Nat
  /\ \A l \in 1 .. j - 1 : Texts!SameText(Texts!ExpectedText(l), call.actual[l])
  /\ NullPtr \notin {Texts!Expd, Texts!Act} =>
       /\ Agree(Texts!Expd, Texts!Act, i)
       /\ call.kind = "len" => i <= call.length

TextInv ==
  /\ TextCall(call)
  /\ outcome \in {"entered", "running", "passed", "failed"}
  /\ outcome # "failed" => report = << >>
  /\ outcome = "entered" => i = 0 /\ j = 1
  /\ outcome = "running" => TextLoop
  /\ Texts!ComparesText

LEMMA InsideOfBuffer ==
  ASSUME Texts!TextAssumption, NEW lim \in Nat,
         NEW s \in Texts!Strings \cup Texts!StringsOfLength(lim), s # NullPtr,
         NEW h \in Nat, \A l \in 0 .. h - 1 : l \in DOMAIN s /\ s[l] # 0,
         s \in Texts!Strings \/ h < lim
  PROVE  h \in DOMAIN s
<1>1. s \in TextBuffers /\ DOMAIN s \subseteq Nat /\ \A m \in DOMAIN s : 0 .. m \subseteq DOMAIN s
  BY DEF Texts!Strings, Texts!StringsOfLength, Texts!TextAssumption
<1>2. CASE Texts!Terminated(s)
  <2>1. PICK z \in DOMAIN s : s[z] = 0
    BY <1>2 DEF Texts!Terminated
  <2>2. z >= h
    BY <1>1, <2>1
  <2> QED
    BY <1>1, <2>1, <2>2
<1>3. CASE ~Texts!Terminated(s)
  <2>1. h < lim /\ 0 .. lim - 1 \subseteq DOMAIN s
    BY <1>3 DEF Texts!Strings, Texts!StringsOfLength
  <2> QED
    BY <2>1
<1> QED
  BY <1>2, <1>3

LEMMA TextsEnd ==
  ASSUME Texts!TextAssumption, NEW e \in TextBuffers, NEW a \in TextBuffers,
         NEW lim \in Int, NEW h \in Nat, Agree(e, a, h), lim < 0 \/ h <= lim,
         \/ h = lim
         \/ h \in DOMAIN e /\ h \in DOMAIN a /\ e[h] = 0 /\ a[h] = 0
  PROVE  Texts!Text(e, lim) = Texts!Text(a, lim)
<1>1. DOMAIN e \subseteq Nat /\ DOMAIN a \subseteq Nat
  BY DEF Texts!TextAssumption
<1>2. {l \in DOMAIN e : (lim < 0 \/ l < lim) /\ \A m \in 0 .. l : e[m] # 0} = 0 .. h - 1
  BY <1>1 DEF Agree
<1>3. {l \in DOMAIN a : (lim < 0 \/ l < lim) /\ \A m \in 0 .. l : a[m] # 0} = 0 .. h - 1
  BY <1>1 DEF Agree
<1>4. Texts!Text(e, lim) = [l \in 0 .. h - 1 |-> e[l]]
  BY <1>2 DEF Texts!Text
<1>5. Texts!Text(a, lim) = [l \in 0 .. h - 1 |-> a[l]]
  BY <1>3 DEF Texts!Text
<1> QED
  BY <1>4, <1>5 DEF Agree

LEMMA TextsDiffer ==
  ASSUME Texts!TextAssumption, NEW e \in TextBuffers, NEW a \in TextBuffers,
         NEW lim \in Int, NEW h \in Nat, Agree(e, a, h), lim < 0 \/ h < lim,
         h \in DOMAIN e, h \in DOMAIN a, e[h] # a[h]
  PROVE  Texts!Text(e, lim) # Texts!Text(a, lim)
<1> DEFINE D(s) == {l \in DOMAIN s : (lim < 0 \/ l < lim) /\ \A m \in 0 .. l : s[m] # 0}
<1>1. \A s : Texts!Text(s, lim) = [l \in D(s) |-> s[l]]
  BY DEF Texts!Text
<1>2. (e[h] # 0 => h \in D(e)) /\ (a[h] # 0 => h \in D(a))
  BY DEF Agree
<1> HIDE DEF D
<1>3. SUFFICES ASSUME Texts!Text(e, lim) = Texts!Text(a, lim)
               PROVE  FALSE
  OBVIOUS
<1>4. D(e) = D(a) /\ \A l \in D(e) : e[l] = a[l]
  BY <1>1, <1>3
<1> QED
  BY <1>2, <1>4

LEMMA TextStarts ==
  ASSUME Texts!TextAssumption, Texts!Init
  PROVE  TextInv
<1>1. \A m \in Nat : \A S : \A f \in [1 .. m -> S] : f \in Seq(S) /\ Len(f) = m
  BY SeqDef
<1>2. TextSizes \subseteq Nat /\ TextLimits \subseteq Nat /\ TextElements \subseteq Texts!Strings
  BY DEF Texts!TextAssumption
<1>3. ASSUME call \in Texts!StringCalls
      PROVE  TextCall(call)
  <2>1. /\ call.kind = "string" /\ TextArguments(call) = Texts!Strings
        /\ call.actual \in [1 .. 1 -> Texts!Strings] /\ call.expected \in [1 .. 1 -> Texts!Strings]
    BY <1>3 DEF Texts!StringCalls, TextArguments
  <2>2. \A f \in [1 .. 1 -> Texts!Strings] : f \in Seq(Texts!Strings) /\ Len(f) = 1
    BY <1>1
  <2> QED
    BY <2>1, <2>2 DEF TextCall
<1>4. ASSUME NEW m \in TextLimits, call \in Texts!StringLenCalls(m)
      PROVE  TextCall(call)
  BY <1>1, <1>2, <1>4 DEF TextCall, TextArguments, Texts!StringLenCalls
<1>5. \A m \in Nat : \A f \in [1 .. m -> TextElements] :
        f \in Seq(Texts!Strings) /\ Len(f) = m
  BY <1>1, <1>2
<1>6. ASSUME NEW m \in TextSizes, call \in Texts!ArrayCalls(m) \cup Texts!EachCalls(m)
      PROVE  TextCall(call)
  <2>1. /\ call.kind \in {"array", "each"} /\ TextArguments(call) = Texts!Strings
        /\ call.kind = "array" => call.pointers \in {"arrays", "same", "expected_null", "actual_null"}
        /\ call.kind = "each" => call.pointers \in {"arrays", "actual_null"}
        /\ call.actual \in [1 .. m -> TextElements]
        /\ call.expected \in [1 .. (IF call.kind = "each" THEN 1 ELSE m) -> TextElements]
    BY <1>6 DEF Texts!ArrayCalls, Texts!EachCalls, TextArguments
  <2> QED
    BY <1>2, <1>5, <2>1 DEF TextCall
<1>7. TextCall(call)
  BY <1>3, <1>4, <1>6 DEF Texts!Init
<1> QED
  BY <1>7 DEF TextInv, Texts!Init, Texts!ComparesText

LEMMA TextFixed ==
  ASSUME call' = call
  PROVE  /\ TextCall(call)' = TextCall(call)
         /\ \A l : Texts!ExpectedText(l)' = Texts!ExpectedText(l)
         /\ \A e, a : Texts!SameText(e, a)' = Texts!SameText(e, a)
         /\ Texts!NothingToCompare' <=> Texts!NothingToCompare
         /\ Texts!SameArrays' <=> Texts!SameArrays
BY DEF TextCall, TextArguments, Texts!ExpectedText, Texts!SameText, Texts!Limit, Texts!Strings,
       Texts!StringsOfLength, Texts!NothingToCompare, Texts!SameArrays, Texts!ExpectedIsNull

\* The strings at j, which are the ones that SameText compares.
LEMMA TextStrings ==
  ASSUME TextCall(call), TextLoop
  PROVE  /\ Texts!Expd \in TextArguments(call) /\ Texts!Act \in TextArguments(call)
         /\ Texts!Expd = Texts!ExpectedText(j) /\ Texts!Act = call.actual[j]
<1>1. j \in 1 .. Len(call.actual)
  BY DEF TextLoop
<1>2. Texts!Act \in TextArguments(call)
  BY <1>1 DEF TextCall, Texts!Act
<1>3. Texts!Expd \in TextArguments(call)
  <2>1. CASE call.kind = "each"
    BY <2>1 DEF TextCall, Texts!Expd
  <2>2. CASE call.kind # "each"
    BY <1>1, <2>2 DEF TextCall, Texts!Expd
  <2> QED
    BY <2>1, <2>2
<1>5. Texts!Expd = Texts!ExpectedText(j) /\ Texts!Act = call.actual[j]
  BY DEF Texts!Expd, Texts!ExpectedText, Texts!Act
<1> QED
  BY <1>2, <1>3, <1>5

\* Two strings that are not NULL are buffers, and a turn reads them inside.
LEMMA TextReads ==
  ASSUME Texts!TextAssumption, TextCall(call), TextLoop, NullPtr \notin {Texts!Expd, Texts!Act}
  PROVE  /\ Texts!Expd \in TextBuffers /\ Texts!Act \in TextBuffers
         /\ Agree(Texts!Expd, Texts!Act, i) /\ i \in Nat
         /\ call.kind = "len" => i <= call.length /\ call.length \in Nat
         /\ (call.kind = "len" => i < call.length) =>
              i \in DOMAIN Texts!Expd /\ i \in DOMAIN Texts!Act
<1>1. Agree(Texts!Expd, Texts!Act, i) /\ i \in Nat /\ (call.kind = "len" => i <= call.length)
  BY DEF TextLoop
<1>2. PICK lim \in Nat :
        /\ call.kind = "len" => lim = call.length
        /\ TextArguments(call) = IF call.kind = "len" THEN Texts!StringsOfLength(lim)
                                                      ELSE Texts!Strings
  BY DEF TextCall, TextArguments
<1>3. Texts!Expd \in TextArguments(call) /\ Texts!Act \in TextArguments(call)
  BY TextStrings
<1>4. \A s \in {Texts!Expd, Texts!Act} : s # NullPtr /\ \A l \in 0 .. i - 1 : l \in DOMAIN s /\ s[l] # 0
  BY <1>1 DEF Agree
<1>5. \A s \in {Texts!Expd, Texts!Act} :
        /\ s \in Texts!Strings \cup Texts!StringsOfLength(lim)
        /\ s \in Texts!Strings \/ call.kind = "len"
  BY <1>2, <1>3
<1>6. ASSUME call.kind = "len" => i < call.length
      PROVE  i \in DOMAIN Texts!Expd /\ i \in DOMAIN Texts!Act
  <2>1. \A s \in {Texts!Expd, Texts!Act} : s \in Texts!Strings \/ i < lim
    BY <1>2, <1>5, <1>6
  <2> QED
    BY <1>1, <1>4, <1>5, <2>1, InsideOfBuffer
<1>7. Texts!Expd \in TextBuffers /\ Texts!Act \in TextBuffers
  BY <1>4, <1>5 DEF Texts!Strings, Texts!StringsOfLength
<1> QED
  BY <1>1, <1>2, <1>6, <1>7

LEMMA TextEnds ==
  ASSUME Texts!TextAssumption, TextCall(call), TextLoop,
         NullPtr \in {Texts!Expd, Texts!Act} => Texts!Expd = Texts!Act,
         NullPtr \notin {Texts!Expd, Texts!Act} =>
           \/ call.kind = "len" /\ ~(i < call.length)
           \/ Texts!Expd[i] = 0 /\ Texts!Act[i] = 0
  PROVE  Texts!SameText(Texts!ExpectedText(j), call.actual[j])
<1>1. SUFFICES Texts!SameText(Texts!Expd, Texts!Act)
  BY TextStrings
<1>2. CASE NullPtr \in {Texts!Expd, Texts!Act}
  BY <1>2 DEF Texts!SameText
<1>3. CASE NullPtr \notin {Texts!Expd, Texts!Act}
  <2> DEFINE lim == Texts!Limit
  <2>1. lim \in Int /\ (lim < 0 \/ i <= lim)
    BY <1>3, TextReads DEF Texts!Limit
  <2>2. \/ i = lim
        \/ /\ i \in DOMAIN Texts!Expd /\ i \in DOMAIN Texts!Act
           /\ Texts!Expd[i] = 0 /\ Texts!Act[i] = 0
    BY <1>3, TextReads DEF Texts!Limit
  <2> HIDE DEF lim
  <2>3. Texts!Text(Texts!Expd, lim) = Texts!Text(Texts!Act, lim)
    BY <1>3, <2>1, <2>2, TextReads, TextsEnd
  <2> QED
    BY <1>3, <2>3 DEF Texts!SameText, lim
<1> QED
  BY <1>2, <1>3

LEMMA TextFails ==
  ASSUME Texts!TextAssumption, TextCall(call), TextLoop,
         NullPtr \in {Texts!Expd, Texts!Act} => Texts!Expd # Texts!Act,
         NullPtr \notin {Texts!Expd, Texts!Act} =>
           Texts!Expd[i] # Texts!Act[i] /\ (call.kind = "len" => i < call.length)
  PROVE  ~Texts!SameText(Texts!ExpectedText(j), call.actual[j])
<1>1. SUFFICES ~Texts!SameText(Texts!Expd, Texts!Act)
  BY TextStrings
<1>2. CASE NullPtr \in {Texts!Expd, Texts!Act}
  BY <1>2 DEF Texts!SameText
<1>3. CASE NullPtr \notin {Texts!Expd, Texts!Act}
  <2> DEFINE lim == Texts!Limit
  <2>1. lim \in Int /\ (lim < 0 \/ i < lim)
    BY <1>3, TextReads DEF Texts!Limit
  <2> HIDE DEF lim
  <2>2. Texts!Text(Texts!Expd, lim) # Texts!Text(Texts!Act, lim)
    BY <1>3, <2>1, TextReads, TextsDiffer
  <2> QED
    BY <1>3, <2>2 DEF Texts!SameText, lim
<1> QED
  BY <1>2, <1>3

\* UnityPrintLen stops at a terminator or behind the length at the latest.
LEMMA ReadUpToLength ==
  ASSUME Texts!TextAssumption, NEW lim \in Nat,
         NEW s \in Texts!StringsOfLength(lim), s # NullPtr
  PROVE  Texts!PrintLenReads(s, lim) \subseteq DOMAIN s \cup {lim}
<1>1. s \in TextBuffers /\ DOMAIN s \subseteq Nat /\ \A m \in DOMAIN s : 0 .. m \subseteq DOMAIN s
  BY DEF Texts!StringsOfLength, Texts!TextAssumption
<1> SUFFICES ASSUME NEW h \in 0 .. lim, \A l \in 0 .. h - 1 : s[l] # 0, h # lim
             PROVE  h \in DOMAIN s
  BY DEF Texts!PrintLenReads
<1>2. CASE Texts!Terminated(s)
  <2>1. PICK z \in DOMAIN s : s[z] = 0
    BY <1>2 DEF Texts!Terminated
  <2>2. z >= h
    BY <1>1, <2>1
  <2> QED
    BY <1>1, <2>1, <2>2
<1>3. CASE ~Texts!Terminated(s)
  BY <1>3 DEF Texts!StringsOfLength
<1> QED
  BY <1>2, <1>3

\* Two texts are something.
LEMMA TwoTexts ==
  /\ \A e, a : Texts!UnityPrintExpectedAndActualStrings(e, a) # << >>
  /\ \A e, a, l : Texts!UnityPrintExpectedAndActualStringsLen(e, a, l) # << >>
<1>1. \A f : DOMAIN f = 1 .. 2 => f # << >>
  BY EmptySeq
<1> QED
  BY <1>1 DEF Texts!UnityPrintExpectedAndActualStrings,
              Texts!UnityPrintExpectedAndActualStringsLen

LEMMA TextReadsInside ==
  ASSUME Texts!TextAssumption, TextInv
  PROVE  Texts!ReadsInside
<1>1. ASSUME outcome = "running", NullPtr \notin {Texts!Expd, Texts!Act},
             call.kind = "len" => i < call.length
      PROVE  /\ \A s \in {Texts!Expd, Texts!Act} :
                  i \in DOMAIN s /\ \A l \in 0 .. i - 1 : s[l] # 0
             /\ call.kind = "len" => i < call.length
  BY <1>1, TextReads DEF Agree, TextInv
<1>2. ASSUME report # << >>, call.kind = "len", NEW s \in {Texts!Expd, Texts!Act} \ {NullPtr}
      PROVE  Texts!PrintLenReads(s, call.length) \subseteq DOMAIN s \cup {call.length}
  <2>1. TextCall(call) /\ j \in DOMAIN call.actual
    BY <1>2 DEF TextInv, Texts!ComparesText, Texts!Wrong
  <2>2. call.length \in Nat /\ s \in Texts!StringsOfLength(call.length)
    <3>1. DOMAIN call.actual = 1 .. 1 /\ DOMAIN call.expected = 1 .. 1
      BY <1>2, <2>1 DEF TextCall
    <3> QED
      BY <1>2, <2>1, <3>1 DEF TextCall, TextArguments, Texts!Expd, Texts!Act
  <2> QED
    BY <1>2, <2>2, ReadUpToLength
<1> QED
  BY <1>1, <1>2 DEF Texts!ReadsInside, Texts!WithinLength

LEMMA TextStutters ==
  ASSUME TextInv, UNCHANGED Texts!vars
  PROVE  TextInv'
<1>1. call' = call /\ i' = i /\ j' = j /\ outcome' = outcome /\ report' = report
  BY DEF Texts!vars
<1> QED
  BY <1>1, TextFixed
  DEF TextInv, TextLoop, Texts!ComparesText, Texts!Wrong, Texts!Expd, Texts!Act

LEMMA TextSteps ==
  ASSUME Texts!TextAssumption, TextInv, Texts!Next
  PROVE  TextInv'
<1> DEFINE Same(l) == Texts!SameText(Texts!ExpectedText(l), call.actual[l])
           Null == NullPtr \in {Texts!Expd, Texts!Act}
           Inside == call.kind = "len" => i < call.length
           Unequal == IF Null THEN Texts!Expd # Texts!Act
                      ELSE Inside /\ Texts!Expd[i] # Texts!Act[i]
           On == ~Null /\ Inside /\ Texts!Expd[i] = Texts!Act[i] /\ Texts!Expd[i] # 0
           Equal == ~Unequal /\ ~On
           Nothing == Texts!NothingToCompare
           Shared == Texts!SameArrays
<1>1. /\ call' = call /\ TextCall(call)
      /\ TextCall(call)'
      /\ \A l : Same(l)' = Same(l)
      /\ (Nothing' <=> Nothing) /\ (Shared' <=> Shared)
  <2>1. call' = call
    BY DEF Texts!Next, Texts!UnityAssertEqualString, Texts!UnityAssertEqualStringLen,
           Texts!UnityAssertEqualStringArray, Texts!Become, Texts!Turn, Texts!Fail,
           Texts!NextElement
  <2> QED
    BY <2>1, TextFixed DEF TextInv
<1>2. \/ outcome = "entered" /\ UNCHANGED <<call, i, j, report>>
           /\ \/ outcome' = "failed" /\ Nothing
              \/ outcome' = "passed" /\ ~Nothing /\ Shared
              \/ outcome' = "running" /\ ~Nothing /\ ~Shared
      \/ /\ outcome = "running" /\ Unequal /\ outcome' = "failed" /\ report' # << >>
         /\ UNCHANGED <<call, i, j>>
      \/ outcome = "running" /\ On /\ i' = i + 1 /\ UNCHANGED <<call, j, outcome, report>>
      \/ /\ outcome = "running" /\ Equal
         /\ \/ /\ outcome' = "passed" /\ UNCHANGED <<call, i, j, report>>
               /\ call.kind \in {"array", "each"} => ~(j < Len(call.actual))
            \/ /\ j < Len(call.actual) /\ j' = j + 1 /\ i' = 0
               /\ UNCHANGED <<call, outcome, report>>
  <2>1. CASE Texts!UnityAssertEqualString
    BY <2>1, TwoTexts DEF Texts!UnityAssertEqualString, Texts!Become, Texts!Turn, Texts!Fail,
                      Texts!NothingToCompare, Texts!SameArrays
  <2>2. CASE Texts!UnityAssertEqualStringLen
    BY <2>2, TwoTexts DEF Texts!UnityAssertEqualStringLen, Texts!Become, Texts!Turn, Texts!Fail,
                      Texts!WithinLength, Texts!NothingToCompare, Texts!SameArrays
  <2>3. CASE Texts!UnityAssertEqualStringArray
    <3>1. CASE outcome = "entered"
      BY <1>1, <2>3, <3>1
      DEF TextCall, Texts!UnityAssertEqualStringArray, Texts!Become, Texts!ExpectedIsNull,
          Texts!NothingToCompare, Texts!SameArrays
    <3>2. CASE outcome = "running"
      BY <2>3, TwoTexts, <3>2 DEF Texts!UnityAssertEqualStringArray, Texts!Become, Texts!Turn, Texts!Fail,
                        Texts!NextElement
    <3> QED
      BY <2>3, <3>1, <3>2 DEF Texts!UnityAssertEqualStringArray
  <2> QED
    BY <2>1, <2>2, <2>3 DEF Texts!Next
<1>3. /\ Len(call.actual) \in Nat /\ DOMAIN call.actual = 1 .. Len(call.actual)
      /\ call.actual = << >> <=> Len(call.actual) = 0
      /\ call.kind \notin {"array", "each"} => call.kind \in {"string", "len"} /\ Len(call.actual) = 1
      /\ call.kind = "len" => call.length \in Nat
      /\ call.kind \in {"array", "each"} /\ ~Nothing => call.actual # << >>
  BY <1>1 DEF TextCall, Texts!NothingToCompare
<1>4. Texts!ComparesText' <=>
        /\ outcome' \in {"passed", "failed"} =>
             (outcome' = "failed" <=>
                Nothing \/ (~Shared /\ \E l \in 1 .. Len(call.actual) : ~Same(l)))
        /\ outcome' = "failed" => (Nothing <=> report' = << >>)
        /\ report' # << >> => /\ j' \in 1 .. Len(call.actual) /\ ~Same(j')
                              /\ \A l \in 1 .. Len(call.actual) : ~Same(l) => j' <= l
        /\ outcome' = "running" => \A l \in 1 .. Len(call.actual) : ~Same(l) => j' <= l
  <2>1. Texts!Wrong' = {l \in 1 .. Len(call.actual) : ~Same(l)}
    BY <1>1, <1>3 DEF Texts!Wrong
  <2> HIDE DEF Same, Nothing, Shared
  <2> QED
    BY <1>1, <2>1 DEF Texts!ComparesText, Nothing, Shared
<1>5. outcome # "failed" => report = << >>
  BY DEF TextInv
<1>6. Null = (NullPtr \in {Texts!Expd, Texts!Act})
  OBVIOUS
<1>7. outcome = "running" => TextLoop
  BY DEF TextInv
<1>8. outcome = "running" /\ Equal => Same(j)
  BY <1>1, <1>7, TextEnds
<1>9. outcome = "running" /\ Unequal => ~Same(j)
  BY <1>1, <1>7, TextFails
<1>16. outcome = "running" => ~Nothing /\ ~Shared
  BY <1>7 DEF TextLoop
<1> HIDE DEF Same
<1>10. CASE outcome = "entered" /\ outcome' # "running"
  <2> HIDE DEF Nothing, Shared, Unequal, On, Equal
  <2>1. /\ report' = << >>
        /\ \/ outcome' = "failed" /\ Nothing
           \/ outcome' = "passed" /\ ~Nothing /\ Shared
    BY <1>2, <1>5, <1>10
  <2>2. Texts!ComparesText'
    BY <1>4, <2>1
  <2> QED
    BY <1>1, <2>1, <2>2 DEF TextInv
<1>11. CASE outcome = "entered" /\ outcome' = "running"
  <2>1. /\ i' = 0 /\ j' = 1 /\ report' = << >>
        /\ ~Nothing /\ ~Shared
        /\ Len(call.actual) > 0
    BY <1>2, <1>3, <1>5, <1>11 DEF TextInv
  <2>2. TextLoop'
    BY <1>1, <1>3, <2>1 DEF TextLoop, Agree
  <2>3. Texts!ComparesText'
    BY <1>4, <1>11, <2>1
  <2> QED
    BY <1>1, <1>11, <2>1, <2>2, <2>3 DEF TextInv
<1>12. CASE /\ outcome = "running" /\ Unequal /\ outcome' = "failed" /\ report' # << >>
            /\ UNCHANGED <<call, i, j>>
  <2>1. j \in 1 .. Len(call.actual) /\ \A l \in 1 .. j - 1 : Same(l)
    BY <1>7, <1>12 DEF TextLoop, Same
  <2>2. \A l \in 1 .. Len(call.actual) : ~Same(l) => j <= l
    BY <1>3, <2>1
  <2>3. Texts!ComparesText'
    BY <1>4, <1>9, <1>12, <1>16, <2>1, <2>2
  <2> QED
    BY <1>1, <1>12, <2>3 DEF TextInv
<1>13. CASE outcome = "running" /\ On /\ i' = i + 1 /\ UNCHANGED <<call, j, outcome, report>>
  <2>1. /\ Agree(Texts!Expd, Texts!Act, i) /\ i \in Nat
        /\ i \in DOMAIN Texts!Expd /\ i \in DOMAIN Texts!Act
    BY <1>1, <1>7, <1>13, TextReads
  <2>2. Agree(Texts!Expd, Texts!Act, i + 1)
    BY <1>13, <2>1 DEF Agree
  <2>3. /\ Texts!Expd' = Texts!Expd /\ Texts!Act' = Texts!Act
        /\ call.kind = "len" => i + 1 <= call.length
    BY <1>1, <1>3, <1>13, <2>1 DEF Texts!Expd, Texts!Act
  <2>4. TextLoop'
    <3>1. TextLoop /\ \A l : Same(l)' = Same(l)
      BY <1>1, <1>7, <1>13
    <3>2. i' = i + 1 /\ i + 1 \in Nat /\ j' = j /\ call' = call /\ ~Nothing' /\ ~Shared'
      BY <1>1, <1>13, <1>16, <2>1
    <3> HIDE DEF On
    <3> QED
      BY <2>2, <2>3, <3>1, <3>2 DEF TextLoop, Same
  <2>5. \A l \in 1 .. Len(call.actual) : ~Same(l) => j <= l
    BY <1>3, <1>7, <1>13 DEF TextLoop, Same
  <2>6. Texts!ComparesText'
    BY <1>4, <1>5, <1>13, <2>5
  <2> QED
    BY <1>1, <1>5, <1>13, <2>4, <2>6 DEF TextInv
<1>14. CASE /\ outcome = "running" /\ Equal /\ outcome' = "passed"
            /\ UNCHANGED <<call, i, j, report>>
            /\ call.kind \in {"array", "each"} => ~(j < Len(call.actual))
  <2>1. j \in 1 .. Len(call.actual) /\ \A l \in 1 .. j - 1 : Same(l)
    BY <1>7, <1>14 DEF TextLoop, Same
  <2>2. j = Len(call.actual)
    <3>1. ~(j < Len(call.actual))
      <4>1. CASE call.kind \in {"array", "each"}
        BY <1>14, <4>1
      <4>2. CASE call.kind \notin {"array", "each"}
        <5>1. Len(call.actual) = 1
          BY <1>3, <4>2
        <5>2. j \in 1 .. 1
          BY <2>1, <5>1
        <5> QED
          BY <5>1, <5>2
      <4> QED
        BY <4>1, <4>2
    <3> QED
      BY <1>3, <2>1, <3>1
  <2>3. \A l \in 1 .. Len(call.actual) : Same(l)
    BY <1>3, <1>8, <1>14, <2>1, <2>2
  <2>4. Texts!ComparesText'
    BY <1>4, <1>5, <1>14, <1>16, <2>3
  <2> QED
    BY <1>1, <1>5, <1>14, <2>4 DEF TextInv
<1>15. CASE /\ outcome = "running" /\ Equal /\ j < Len(call.actual) /\ j' = j + 1 /\ i' = 0
            /\ UNCHANGED <<call, outcome, report>>
  <2>1. j \in 1 .. Len(call.actual) /\ \A l \in 1 .. j - 1 : Same(l)
    BY <1>7, <1>15 DEF TextLoop, Same
  <2>2. j' \in 1 .. Len(call.actual) /\ \A l \in 1 .. j' - 1 : Same(l)
    BY <1>3, <1>8, <1>15, <2>1
  <2>3. TextLoop'
    <3>1. Agree(Texts!Expd, Texts!Act, i)' /\ (call'.kind = "len" => i' <= call'.length)
      BY <1>1, <1>3, <1>15 DEF Agree
    <3>2. \A l : Same(l)' = Same(l)
      BY <1>1 DEF Same
    <3>3. ~Nothing' /\ ~Shared'
      BY <1>1, <1>15, <1>16
    <3> QED
      BY <1>1, <1>15, <2>2, <3>1, <3>2, <3>3 DEF TextLoop, Same
  <2>4. \A l \in 1 .. Len(call.actual) : ~Same(l) => j' <= l
    BY <1>3, <2>2
  <2>5. Texts!ComparesText'
    BY <1>4, <1>5, <1>15, <2>4
  <2> QED
    BY <1>1, <1>5, <1>15, <2>3, <2>5 DEF TextInv
<1> QED
  BY <1>2, <1>10, <1>11, <1>12, <1>13, <1>14, <1>15

-----------------------------------------------------------------------------
(* The assertions on floats.                                                *)

\* The values of a UNITY_FLOAT.
FloatRange == (-Floats!Inf) .. Floats!NaN

AbsoluteOf(x) == IF x < 0 THEN -x ELSE x

LEMMA MaxOfPair ==
  ASSUME NEW x \in Int, NEW y \in Int
  PROVE  /\ Floats!Max({x, y}) = IF x >= y THEN x ELSE y
         /\ Floats!Min({x, y}) = IF x <= y THEN x ELSE y
BY DEF Floats!Max, Floats!Min

LEMMA QuotientSmaller ==
  ASSUME NEW x \in Nat, NEW p \in Nat \ {0}
  PROVE  x \div p \in 0 .. x
<1> DEFINE q == x \div p
<1>1. q \in Int /\ p * q <= x /\ x < p * q + p
  BY Z3
<1>2. q >= 0
  BY <1>1, Z3
<1>3. q <= p * q
  BY <1>2, <1>1, Z3
<1> QED
  BY <1>1, <1>2, <1>3

LEMMA FloatBasics ==
  ASSUME Floats!FloatAssumption, NEW x \in FloatRange
  PROVE  /\ x \in Int /\ MaxFinite \in Nat /\ Precision \in Nat \ {0}
         /\ Floats!Finite(x) <=> x \in (-MaxFinite) .. MaxFinite
         /\ Floats!IsNaN(x) <=> x = MaxFinite + 2
         /\ Floats!IsInf(x) <=> x = MaxFinite + 1 \/ x = -(MaxFinite + 1)
         /\ Floats!Finite(x) \/ Floats!IsNaN(x) \/ Floats!IsInf(x)
         /\ ~Floats!IsNaN(x) => Floats!Magnitude(x) = AbsoluteOf(x)
         /\ Floats!IsNaN(x) => Floats!Magnitude(x) = x
BY DEF FloatRange, AbsoluteOf, Floats!FloatAssumption, Floats!Finite, Floats!IsNaN, Floats!IsInf,
       Floats!Inf, Floats!NaN, Floats!Magnitude, Floats!Negative, Floats!Neg

\* Whatever overflows: two floats are within a delta when they are near in
\* exact arithmetic, up to the largest number.  No delta matters if the
\* expected one is special.
LEMMA WithinMeansNear ==
  ASSUME Floats!FloatAssumption, NEW d \in FloatRange, NEW e \in FloatRange,
         NEW a \in FloatRange, ~Floats!IsNaN(d) \/ ~Floats!Finite(e)
  PROVE  Floats!UnityFloatsWithin(d, e, a) <=>
           Floats!Near(IF AbsoluteOf(d) <= MaxFinite THEN AbsoluteOf(d) ELSE MaxFinite, e, a)
<1> DEFINE M == MaxFinite
           t == IF AbsoluteOf(d) <= M THEN AbsoluteOf(d) ELSE M
<1>1. /\ d \in Int /\ e \in Int /\ a \in Int /\ M \in Nat
      /\ Floats!IsNaN(e) <=> e = M + 2
      /\ Floats!IsNaN(a) <=> a = M + 2
      /\ Floats!IsInf(e) <=> e = M + 1 \/ e = -(M + 1)
      /\ Floats!IsInf(a) <=> a = M + 1 \/ a = -(M + 1)
      /\ ~Floats!IsNaN(d) => Floats!Magnitude(d) = AbsoluteOf(d) /\ AbsoluteOf(d) \in 0 .. M + 1
  BY FloatBasics DEF FloatRange, AbsoluteOf, Floats!Inf, Floats!NaN, Floats!IsNaN
<1>2. CASE Floats!Finite(e) /\ Floats!Finite(a)
  <2>1. a - e \in Int /\ e \in (-M) .. M /\ a \in (-M) .. M
    BY <1>1, <1>2, FloatBasics
  <2>2. Floats!Minus(a, e) = Floats!Result(a - e)
    BY <1>1, <1>2, <2>1 DEF Floats!Minus, Floats!Plus, Floats!Neg, Floats!Finite, Floats!IsInf,
                             Floats!IsNaN, Floats!Inf, Floats!NaN
  <2>3. Floats!Magnitude(Floats!Result(a - e)) =
          IF AbsoluteOf(a - e) <= M THEN AbsoluteOf(a - e) ELSE M + 1
    BY <1>1, <2>1 DEF Floats!Magnitude, Floats!Result, Floats!Negative, Floats!Neg, Floats!IsNaN,
                      Floats!Inf, Floats!NaN, AbsoluteOf
  <2>4. Floats!UnityFloatsWithin(d, e, a) <=> AbsoluteOf(a - e) <= t
    <3> DEFINE diff == IF AbsoluteOf(a - e) <= M THEN AbsoluteOf(a - e) ELSE M + 1
    <3>1. Floats!UnityFloatsWithin(d, e, a) <=>
            ~(Floats!IsNaN(diff) \/ Floats!IsInf(diff) \/ Floats!Less(AbsoluteOf(d), diff))
      BY <1>1, <1>2, <2>2, <2>3 DEF Floats!UnityFloatsWithin, Floats!Finite
    <3>2. AbsoluteOf(a - e) \in Nat
      BY <2>1 DEF AbsoluteOf
    <3>3. AbsoluteOf(d) \in 0 .. M + 1
      BY <1>1, <1>2
    <3> HIDE DEF AbsoluteOf
    <3> QED
      BY <1>1, <3>1, <3>2, <3>3 DEF Floats!IsNaN, Floats!IsInf, Floats!Less, Floats!Inf, Floats!NaN
  <2>5. Floats!Near(t, e, a) <=> AbsoluteOf(a - e) <= t
    <3>1. Floats!Max({e - a, a - e}) = AbsoluteOf(a - e)
      BY <1>1, MaxOfPair DEF AbsoluteOf
    <3> QED
      BY <1>2, <3>1 DEF Floats!Near, Floats!Finite
  <2> QED
    BY <2>4, <2>5
<1>3. CASE ~(Floats!Finite(e) /\ Floats!Finite(a))
  <2>1. Floats!Near(t, e, a) <=> e = a
    BY <1>3 DEF Floats!Near, Floats!Finite
  <2>2. CASE Floats!IsNaN(e) \/ Floats!IsNaN(a)
    <3>1. Floats!IsNaN(Floats!Minus(a, e))
      BY <1>1, <2>2 DEF Floats!Minus, Floats!Plus, Floats!Neg, Floats!IsNaN
    <3>2. Floats!UnityFloatsWithin(d, e, a) <=> Floats!IsNaN(e) /\ Floats!IsNaN(a)
      <4>1. Floats!IsNaN(Floats!Magnitude(Floats!Minus(a, e)))
        BY <3>1 DEF Floats!Magnitude, Floats!Negative
      <4>2. ~(Floats!IsInf(e) /\ Floats!IsInf(a))
        BY <1>1, <2>2
      <4> QED
        BY <4>1, <4>2 DEF Floats!UnityFloatsWithin
    <3> QED
      BY <1>1, <2>1, <2>2, <3>2
  <2>3. CASE ~Floats!IsNaN(e) /\ ~Floats!IsNaN(a) /\ (Floats!IsInf(e) \/ Floats!IsInf(a))
    <3>1. e # a => \/ Floats!IsNaN(Floats!Minus(a, e)) \/ Floats!IsInf(Floats!Minus(a, e))
      BY <1>1, <2>3 DEF Floats!Minus, Floats!Plus, Floats!Neg, Floats!IsNaN, Floats!IsInf, Floats!Inf,
                        Floats!NaN
    <3>2. \A x : Floats!IsNaN(x) => Floats!IsNaN(Floats!Magnitude(x))
      BY DEF Floats!Magnitude, Floats!Negative
    <3>3. \A x : Floats!IsInf(x) => Floats!IsInf(Floats!Magnitude(x))
      BY <1>1 DEF Floats!Magnitude, Floats!Negative, Floats!Neg, Floats!IsNaN, Floats!IsInf, Floats!Inf,
             Floats!NaN
    <3>4. e # a => ~(Floats!IsInf(e) /\ Floats!IsInf(a) /\ Floats!Negative(e) = Floats!Negative(a))
      BY <1>1, <2>3 DEF Floats!Negative
    <3>5. e # a => ~Floats!UnityFloatsWithin(d, e, a)
      BY <2>3, <3>1, <3>2, <3>3, <3>4 DEF Floats!UnityFloatsWithin
    <3>6. e = a => Floats!UnityFloatsWithin(d, e, a)
      BY <2>3 DEF Floats!UnityFloatsWithin
    <3> QED
      BY <2>1, <3>5, <3>6
  <2> QED
    BY <1>3, <2>2, <2>3 DEF Floats!Finite
<1> QED
  BY <1>2, <1>3

LEMMA ToleranceBasics ==
  ASSUME Floats!FloatAssumption, NEW e \in FloatRange
  PROVE  /\ Floats!TimesPrecision(e) \in FloatRange
         /\ Floats!Finite(e) => /\ Floats!Tolerance(e) \in 0 .. MaxFinite
                                /\ Floats!Finite(Floats!TimesPrecision(e))
                                /\ AbsoluteOf(Floats!TimesPrecision(e)) = Floats!Tolerance(e)
         /\ ~Floats!Finite(e) => Floats!TimesPrecision(e) = e /\ Floats!Tolerance(e) = 0
<1>1. CASE Floats!Finite(e)
  <2>1. /\ e \in (-MaxFinite) .. MaxFinite /\ MaxFinite \in Nat
        /\ ~Floats!IsNaN(e) /\ ~Floats!IsInf(e)
    BY <1>1, FloatBasics DEF Floats!Finite
  <2> DEFINE q == AbsoluteOf(e) \div Precision
  <2>2. AbsoluteOf(e) \in 0 .. MaxFinite
    BY <2>1 DEF AbsoluteOf
  <2>3. q \in 0 .. MaxFinite
    BY <2>1, <2>2, FloatBasics, QuotientSmaller
  <2>4. Floats!Tolerance(e) = q
    BY <2>1, MaxOfPair DEF Floats!Tolerance, AbsoluteOf
  <2>5. Floats!TimesPrecision(e) = IF e < 0 THEN -q ELSE q
    BY <2>1 DEF Floats!TimesPrecision, AbsoluteOf
  <2> HIDE DEF q
  <2>6. AbsoluteOf(IF e < 0 THEN -q ELSE q) = q
    BY <2>1, <2>3 DEF AbsoluteOf
  <2> QED
    BY <1>1, <2>1, <2>3, <2>4, <2>5, <2>6
    DEF FloatRange, Floats!Finite, Floats!IsNaN, Floats!IsInf, Floats!Inf, Floats!NaN
<1>2. CASE ~Floats!Finite(e)
  BY <1>2 DEF Floats!Finite, Floats!Tolerance, Floats!TimesPrecision
<1> QED
  BY <1>1, <1>2

LEMMA EqualMeansNear ==
  ASSUME Floats!FloatAssumption, NEW e \in FloatRange, NEW a \in FloatRange
  PROVE  Floats!UnityFloatsWithin(Floats!TimesPrecision(e), e, a) <=>
           Floats!Near(Floats!Tolerance(e), e, a)
<1> DEFINE d == Floats!TimesPrecision(e)
<1>1. d \in FloatRange /\ (~Floats!IsNaN(d) \/ ~Floats!Finite(e))
  BY ToleranceBasics DEF Floats!Finite
<1> DEFINE t == IF AbsoluteOf(d) <= MaxFinite THEN AbsoluteOf(d) ELSE MaxFinite
<1>2. Floats!UnityFloatsWithin(d, e, a) <=> Floats!Near(t, e, a)
  <2> HIDE DEF d
  <2> QED
    BY <1>1, WithinMeansNear
<1>3. CASE Floats!Finite(e)
  <2>1. t = Floats!Tolerance(e)
    BY <1>3, ToleranceBasics, FloatBasics
  <2> QED
    BY <1>2, <2>1
<1>4. CASE ~Floats!Finite(e)
  BY <1>2, <1>4 DEF Floats!Near, Floats!Finite
<1> QED
  BY <1>3, <1>4

\* The tolerance of one element, which ArraysAreNear is about.
ElementTolerance(d, e) ==
  Floats!Min({MaxFinite, Floats!Max({d, -d}) + Floats!Tolerance(e)})

LEMMA ElementMeansNear ==
  ASSUME Floats!FloatAssumption, call.delta \in FloatRange, Floats!Finite(call.delta),
         NEW e \in FloatRange, NEW a \in FloatRange
  PROVE  Floats!UnityFloatsWithin(Floats!ElementDelta(e), e, a) <=>
           Floats!Near(ElementTolerance(call.delta, e), e, a)
<1> DEFINE p == AbsoluteOf(call.delta)
           d == Floats!ElementDelta(e)
           t == IF AbsoluteOf(d) <= MaxFinite THEN AbsoluteOf(d) ELSE MaxFinite
<1>1. /\ call.delta \in Int /\ p \in 0 .. MaxFinite /\ MaxFinite \in Nat
      /\ Floats!Magnitude(call.delta) = p /\ Floats!Max({call.delta, -call.delta}) = p
  BY FloatBasics, MaxOfPair DEF AbsoluteOf, Floats!Finite
<1>2. CASE Floats!Finite(e)
  <2> DEFINE q == Floats!Tolerance(e)
  <2>1. q \in 0 .. MaxFinite /\ Floats!Magnitude(Floats!TimesPrecision(e)) = q
    BY <1>2, ToleranceBasics, FloatBasics DEF Floats!Finite
  <2> HIDE DEF p, q
  <2>2. d = Floats!Result(p + q)
    BY <1>1, <2>1 DEF Floats!ElementDelta, Floats!Plus, Floats!IsNaN, Floats!IsInf, Floats!Inf,
                      Floats!NaN
  <2>3. d = IF p + q > MaxFinite THEN MaxFinite + 1 ELSE p + q
    BY <1>1, <2>1, <2>2 DEF Floats!Result, Floats!Inf
  <2>4. d \in FloatRange /\ ~Floats!IsNaN(d)
    BY <1>1, <2>1, <2>3 DEF FloatRange, Floats!IsNaN, Floats!Inf, Floats!NaN
  <2>5. ElementTolerance(call.delta, e) = IF MaxFinite <= p + q THEN MaxFinite ELSE p + q
    <3>1. ElementTolerance(call.delta, e) = Floats!Min({MaxFinite, p + q})
      BY <1>1 DEF ElementTolerance, q
    <3>2. p + q \in Int
      BY <1>1, <2>1
    <3>3. MaxFinite \in Int
      BY <1>1
    <3>4. Floats!Min({MaxFinite, p + q}) = IF MaxFinite <= p + q THEN MaxFinite ELSE p + q
      BY <3>2, <3>3, MaxOfPair
    <3> QED
      BY <3>1, <3>4
  <2>6. t = ElementTolerance(call.delta, e)
    BY <1>1, <2>1, <2>3, <2>5 DEF AbsoluteOf
  <2> HIDE DEF d
  <2>7. Floats!UnityFloatsWithin(d, e, a) <=> Floats!Near(t, e, a)
    BY <2>4, WithinMeansNear
  <2> HIDE DEF t
  <2> QED
    BY <2>6, <2>7 DEF d
<1>3. CASE ~Floats!Finite(e)
  <2>1. d \in FloatRange
    <3>1. Floats!TimesPrecision(e) = e
      BY <1>3, ToleranceBasics
    <3> QED
      BY <1>1, <1>3, <3>1, FloatBasics
      DEF Floats!ElementDelta, Floats!Plus, Floats!Magnitude, Floats!Negative, Floats!Neg,
          FloatRange, Floats!IsNaN, Floats!IsInf, Floats!Inf, Floats!NaN
  <2> HIDE DEF d
  <2>2. Floats!UnityFloatsWithin(d, e, a) <=> Floats!Near(t, e, a)
    BY <1>3, <2>1, WithinMeansNear
  <2> QED
    BY <1>3, <2>2 DEF Floats!Near, Floats!Finite, d
<1> QED
  BY <1>2, <1>3

FloatKinds == {"within", "not_within", "equal", "not_equal", "order", "special", "array", "each"}

FloatCall(c) ==
  /\ c.kind \in FloatKinds
  /\ c.kind \in {"within", "not_within", "equal", "not_equal", "order"} =>
       c.expected \in FloatRange /\ c.actual \in FloatRange
  /\ c.kind \in {"within", "not_within", "array", "each"} => c.delta \in FloatRange
  /\ c.kind = "order" => c.compare \in Floats!Comparisons
  /\ c.kind \in {"array", "each"} =>
       /\ c.pointers \in {"arrays", "same", "one_null"}
       /\ c.actual \in Seq(FloatRange) /\ c.expected \in Seq(FloatRange)
       /\ Len(c.expected) = IF c.kind = "each" THEN 1 ELSE Len(c.actual)

\* What has been compared when the loop is at element k.
FloatLoop ==
  /\ call.kind \in {"array", "each"} /\ call.pointers = "arrays"
  /\ Floats!Finite(call.delta) /\ call.actual # << >>
  /\ k <= Len(call.actual) + 1
  /\ \A m \in 1 .. k - 1 :
       Floats!Near(ElementTolerance(call.delta, Floats!ExpectedAt(m)), Floats!ExpectedAt(m),
                   call.actual[m])

FloatInv ==
  /\ FloatCall(call)
  /\ outcome \in {"entered", "running", "passed", "failed"}
  /\ k \in Nat \ {0}
  /\ outcome = "entered" => k = 1
  /\ outcome = "running" => FloatLoop
  /\ Floats!WithinIsNear /\ Floats!OrderOfNumbers /\ Floats!ArraysAreNear

LEMMA FloatStarts ==
  ASSUME Floats!FloatAssumption, Floats!Init
  PROVE  FloatInv
<1>1. FloatCall(call)
  <2>1. /\ FloatValues \subseteq FloatRange /\ FloatElements \subseteq FloatRange
        /\ FloatDeltas \subseteq FloatRange /\ 0 \in FloatRange /\ FloatSizes \subseteq Nat
    BY DEF Floats!FloatAssumption, FloatRange, Floats!Inf, Floats!NaN
  <2>2. CASE call \in Floats!WithinCalls \cup Floats!EqualCalls \cup Floats!OrderCalls
                     \cup Floats!SpecialCalls
    <3>1. FloatCall(call) <=>
            /\ call.kind \in {"within", "not_within", "equal", "not_equal", "order"} =>
                 call.expected \in FloatRange /\ call.actual \in FloatRange
            /\ call.kind \in {"within", "not_within"} => call.delta \in FloatRange
            /\ call.kind = "order" => call.compare \in Floats!Comparisons
      BY <2>2 DEF FloatCall, FloatKinds, Floats!WithinCalls, Floats!EqualCalls,
                  Floats!OrderCalls, Floats!SpecialCalls
    <3> QED
      BY <2>1, <2>2, <3>1 DEF Floats!WithinCalls, Floats!EqualCalls, Floats!OrderCalls,
                              Floats!SpecialCalls
  <2>3. ASSUME NEW m \in FloatSizes, call \in Floats!ArrayCalls(m) \cup Floats!EachCalls(m)
        PROVE  FloatCall(call)
    <3>1. \A l \in Nat : \A f \in [1 .. l -> FloatElements] : f \in Seq(FloatRange) /\ Len(f) = l
      BY <2>1, SeqDef
    <3>2. /\ call.kind \in {"array", "each"} /\ call.delta \in FloatRange
          /\ call.pointers \in {"arrays", "same", "one_null"}
          /\ call.actual \in [1 .. m -> FloatElements]
          /\ call.expected \in [1 .. (IF call.kind = "each" THEN 1 ELSE m) -> FloatElements]
      BY <2>1, <2>3 DEF Floats!ArrayCalls, Floats!EachCalls
    <3> QED
      BY <2>1, <3>1, <3>2 DEF FloatCall, FloatKinds
  <2> QED
    BY <2>2, <2>3 DEF Floats!Init
<1>2. k = 1 /\ outcome = "entered"
  BY DEF Floats!Init
<1>3. Floats!WithinIsNear /\ Floats!OrderOfNumbers
  BY <1>2 DEF Floats!WithinIsNear, Floats!OrderOfNumbers
<1>4. Floats!ArraysAreNear
  BY <1>1, <1>2 DEF FloatCall, Floats!ArraysAreNear
<1> QED
  BY <1>1, <1>2, <1>3, <1>4 DEF FloatInv

LEMMA FloatFixed ==
  ASSUME call' = call
  PROVE  /\ FloatCall(call)' = FloatCall(call)
         /\ \A m : Floats!ExpectedAt(m)' = Floats!ExpectedAt(m)
BY DEF FloatCall, Floats!ExpectedAt

LEMMA FloatStutters ==
  ASSUME FloatInv, UNCHANGED Floats!vars
  PROVE  FloatInv'
<1>1. call' = call /\ k' = k /\ outcome' = outcome
  BY DEF Floats!vars
<1>2. Floats!WithinIsNear' /\ Floats!OrderOfNumbers'
  BY <1>1 DEF FloatInv, Floats!WithinIsNear, Floats!OrderOfNumbers
<1>3. Floats!ArraysAreNear'
  BY <1>1, FloatFixed DEF FloatInv, Floats!ArraysAreNear
<1> QED
  BY <1>1, <1>2, <1>3, FloatFixed DEF FloatInv, FloatLoop

\* What the comparison of two floats decides.
Verdict == Floats!UnityFloatsWithin(Floats!DeltaPassed, call.expected, call.actual)

LEMMA VerdictIsNear ==
  ASSUME Floats!FloatAssumption, FloatCall(call)
  PROVE  /\ call.kind \in {"within", "not_within"} /\ Floats!Finite(call.delta) =>
              (Verdict <=> Floats!Near(Floats!Max({call.delta, -call.delta}),
                                       call.expected, call.actual))
         /\ call.kind \in {"equal", "not_equal"} =>
              (Verdict <=> Floats!Near(Floats!Tolerance(call.expected),
                                       call.expected, call.actual))
<1>1. ASSUME call.kind \in {"within", "not_within"}, Floats!Finite(call.delta)
      PROVE  Verdict <=> Floats!Near(Floats!Max({call.delta, -call.delta}),
                                     call.expected, call.actual)
  <2>1. /\ call.delta \in FloatRange /\ call.expected \in FloatRange
        /\ call.actual \in FloatRange /\ Floats!DeltaPassed = call.delta
    BY <1>1 DEF FloatCall, Floats!DeltaPassed
  <2>2. /\ ~Floats!IsNaN(call.delta) /\ AbsoluteOf(call.delta) <= MaxFinite
        /\ Floats!Max({call.delta, -call.delta}) = AbsoluteOf(call.delta)
    BY <1>1, <2>1, FloatBasics, MaxOfPair DEF AbsoluteOf
  <2> QED
    BY <2>1, <2>2, WithinMeansNear DEF Verdict
<1>2. ASSUME call.kind \in {"equal", "not_equal"}
      PROVE  Verdict <=> Floats!Near(Floats!Tolerance(call.expected), call.expected, call.actual)
  <2>1. /\ call.expected \in FloatRange /\ call.actual \in FloatRange
        /\ Floats!DeltaPassed = Floats!TimesPrecision(call.expected)
    BY <1>2 DEF FloatCall, Floats!DeltaPassed
  <2> QED
    BY <2>1, EqualMeansNear DEF Verdict
<1> QED
  BY <1>1, <1>2

LEMMA OrderIsOfNumbers ==
  ASSUME Floats!FloatAssumption, NEW c \in Floats!Comparisons,
         NEW e \in FloatRange, NEW a \in FloatRange
  PROVE  ~Floats!NotInOrder(c, e, a) <=>
           /\ Floats!NaN \notin {e, a}
           /\ IF "GREATER_THAN" \in c THEN a > e ELSE a < e
<1>1. e \in Int /\ a \in Int
  BY FloatBasics
<1> QED
  BY <1>1 DEF Floats!Comparisons, Floats!NotInOrder, Floats!Less, Floats!IsNaN

LEMMA ElementsInRange ==
  ASSUME FloatCall(call), call.kind \in {"array", "each"}, NEW m \in 1 .. Len(call.actual)
  PROVE  Floats!ExpectedAt(m) \in FloatRange /\ call.actual[m] \in FloatRange
<1>1. call.actual[m] \in FloatRange
  BY DEF FloatCall
<1>2. Floats!ExpectedAt(m) \in FloatRange
  <2>1. CASE call.kind = "each"
    BY <2>1 DEF FloatCall, Floats!ExpectedAt
  <2>2. CASE call.kind # "each"
    BY <2>2 DEF FloatCall, Floats!ExpectedAt
  <2> QED
    BY <2>1, <2>2
<1> QED
  BY <1>1, <1>2

LEMMA FloatSteps ==
  ASSUME Floats!FloatAssumption, FloatInv, Floats!Next
  PROVE  FloatInv'
<1> DEFINE e == call.expected
           a == call.actual
           Good(m) == Floats!Near(ElementTolerance(call.delta, Floats!ExpectedAt(m)),
                                  Floats!ExpectedAt(m), call.actual[m])
<1>1. /\ call' = call /\ FloatCall(call) /\ FloatCall(call)'
      /\ \A m : Good(m)' = Good(m)
  <2>1. call' = call
    BY DEF Floats!Next, Floats!UnityAssertFloatsWithin, Floats!UnityAssertFloatsNotWithin,
           Floats!UnityAssertGreaterOrLessFloat, Floats!UnityAssertFloatSpecial,
           Floats!UnityAssertWithinFloatArray, Floats!EnterFloatArray, Floats!CompareFloats,
           Floats!Conclude
  <2> QED
    BY <2>1, FloatFixed DEF FloatInv, ElementTolerance
<1>2. ASSUME outcome = "entered", outcome' \in {"passed", "failed"}, k' = k,
             call.kind \notin {"array", "each"},
             Floats!WithinIsNear', Floats!OrderOfNumbers'
      PROVE  FloatInv'
  BY <1>1, <1>2 DEF FloatInv, FloatLoop, Floats!ArraysAreNear
<1>3. CASE Floats!UnityAssertFloatsWithin \/ Floats!UnityAssertFloatsNotWithin
  <2>1. /\ outcome = "entered" /\ outcome' \in {"passed", "failed"} /\ k' = k
        /\ call.kind \in {"within", "not_within", "equal", "not_equal"}
        /\ call.kind \in {"within", "equal"} => (outcome' = "passed" <=> Verdict)
        /\ call.kind \in {"not_within", "not_equal"} => (outcome' = "passed" <=> ~Verdict)
    BY <1>3 DEF Floats!UnityAssertFloatsWithin, Floats!UnityAssertFloatsNotWithin,
                Floats!Conclude, Verdict
  <2>2. Floats!WithinIsNear'
    BY <1>1, <2>1, VerdictIsNear DEF Floats!WithinIsNear
  <2>3. Floats!OrderOfNumbers'
    BY <1>1, <2>1 DEF Floats!OrderOfNumbers
  <2> QED
    BY <1>2, <2>1, <2>2, <2>3
<1>4. CASE Floats!UnityAssertGreaterOrLessFloat
  <2>1. /\ outcome = "entered" /\ outcome' \in {"passed", "failed"} /\ k' = k
        /\ call.kind = "order"
        /\ outcome' = "passed" <=>
             \/ ~Floats!NotInOrder(call.compare, e, a)
             \/ /\ "EQUAL_TO" \in call.compare
                /\ Floats!UnityFloatsWithin(Floats!TimesPrecision(e), e, a)
    BY <1>4 DEF Floats!UnityAssertGreaterOrLessFloat, Floats!Conclude
  <2>2. call.compare \in Floats!Comparisons /\ e \in FloatRange /\ a \in FloatRange
    BY <1>1, <2>1 DEF FloatCall
  <2>3. Floats!OrderOfNumbers'
    BY <1>1, <2>1, <2>2, OrderIsOfNumbers, EqualMeansNear DEF Floats!OrderOfNumbers
  <2>4. Floats!WithinIsNear'
    BY <1>1, <2>1 DEF Floats!WithinIsNear
  <2> QED
    BY <1>2, <2>1, <2>3, <2>4
<1>5. CASE Floats!UnityAssertFloatSpecial
  <2>1. /\ outcome = "entered" /\ outcome' \in {"passed", "failed"} /\ k' = k
        /\ call.kind = "special"
    BY <1>5 DEF Floats!UnityAssertFloatSpecial, Floats!Conclude
  <2>2. Floats!WithinIsNear' /\ Floats!OrderOfNumbers'
    BY <1>1, <2>1 DEF Floats!WithinIsNear, Floats!OrderOfNumbers
  <2> QED
    BY <1>2, <2>1, <2>2
<1>6. CASE Floats!UnityAssertWithinFloatArray
  <2>1. /\ call.kind \in {"array", "each"} /\ call.delta \in FloatRange
        /\ call.pointers \in {"arrays", "same", "one_null"}
        /\ Len(call.actual) \in Nat /\ DOMAIN call.actual = 1 .. Len(call.actual)
        /\ call.actual = << >> <=> Len(call.actual) = 0
    BY <1>1, <1>6 DEF FloatCall, Floats!UnityAssertWithinFloatArray
  <2>2. Floats!WithinIsNear' /\ Floats!OrderOfNumbers'
    BY <1>1, <2>1 DEF Floats!WithinIsNear, Floats!OrderOfNumbers
  <2>3. Floats!ArraysAreNear' <=>
          /\ outcome' = "passed" => call.actual # << >> /\ ~Floats!IsNaN(call.delta)
          /\ call.pointers = "arrays" /\ Floats!Finite(call.delta) =>
               /\ \A m \in 1 .. Len(call.actual) : ~Good(m) => k' <= m
               /\ outcome' = "failed" /\ call.actual # << >> =>
                    k' \in 1 .. Len(call.actual) /\ ~Good(k')
               /\ outcome' = "passed" => \A m \in 1 .. Len(call.actual) : Good(m)
    BY <1>1, <2>1, FloatFixed DEF Floats!ArraysAreNear, ElementTolerance
  <2>4. ASSUME Floats!EnterFloatArray
        PROVE  FloatInv'
    <3>1. /\ outcome = "entered" /\ k = 1 /\ k' = 1
          /\ outcome' \in {"passed", "failed", "running"}
          /\ outcome' = "passed" => /\ call.actual # << >> /\ ~Floats!IsNaN(call.delta)
                                    /\ call.pointers # "arrays" \/ ~Floats!Finite(call.delta)
          /\ outcome' = "failed" => \/ call.actual = << >> \/ call.pointers # "arrays"
                                    \/ ~Floats!Finite(call.delta)
          /\ outcome' = "running" => /\ call.actual # << >> /\ call.pointers = "arrays"
                                     /\ Floats!Finite(call.delta)
      BY <2>1, <2>4, FloatBasics DEF FloatInv, Floats!EnterFloatArray, Floats!Finite
    <3>2. Floats!ArraysAreNear'
      BY <2>1, <2>3, <3>1
    <3> QED
      BY <1>1, <2>1, <2>2, <3>1, <3>2 DEF FloatInv, FloatLoop
  <2>5. ASSUME Floats!CompareFloats
        PROVE  FloatInv'
    <3>1. /\ outcome = "running" /\ k \in Nat \ {0} /\ k <= Len(call.actual) + 1
          /\ call.pointers = "arrays" /\ Floats!Finite(call.delta) /\ call.actual # << >>
          /\ \A m \in 1 .. k - 1 : Good(m)
      BY <2>5 DEF FloatInv, FloatLoop, Floats!CompareFloats
    <3>2. \A m \in 1 .. Len(call.actual) :
            Good(m) <=> Floats!UnityFloatsWithin(Floats!ElementDelta(Floats!ExpectedAt(m)),
                                                Floats!ExpectedAt(m), call.actual[m])
      BY <1>1, <2>1, <3>1, ElementsInRange, ElementMeansNear
    <3> HIDE DEF Good
    <3>3. ~Floats!IsNaN(call.delta)
      BY <3>1 DEF Floats!Finite
    <3>4. CASE k > Len(call.actual)
      <4>1. outcome' = "passed" /\ k' = k
        BY <2>5, <3>4 DEF Floats!CompareFloats
      <4>2. \A m \in 1 .. Len(call.actual) : Good(m)
        BY <2>1, <3>1, <3>4
      <4>3. Floats!ArraysAreNear'
        BY <2>3, <3>1, <3>3, <4>1, <4>2
      <4> QED
        BY <1>1, <2>2, <3>1, <4>1, <4>3 DEF FloatInv
    <3>5. CASE k <= Len(call.actual) /\ ~Good(k)
      <4>1. outcome' = "failed" /\ k' = k
        BY <2>1, <2>5, <3>1, <3>2, <3>5 DEF Floats!CompareFloats
      <4>2. \A m \in 1 .. Len(call.actual) : ~Good(m) => k <= m
        BY <2>1, <3>1
      <4>3. Floats!ArraysAreNear'
        BY <2>1, <2>3, <3>1, <3>5, <4>1, <4>2
      <4> QED
        BY <1>1, <2>2, <3>1, <4>1, <4>3 DEF FloatInv
    <3>6. CASE k <= Len(call.actual) /\ Good(k)
      <4>1. outcome' = "running" /\ k' = k + 1
        BY <2>1, <2>5, <3>1, <3>2, <3>6 DEF Floats!CompareFloats
      <4>2. \A m \in 1 .. k' - 1 : Good(m)
        BY <3>1, <3>6, <4>1
      <4>3. \A m \in 1 .. Len(call.actual) : ~Good(m) => k' <= m
        BY <2>1, <3>1, <4>1, <4>2
      <4>4. Floats!ArraysAreNear'
        BY <2>3, <4>1, <4>3
      <4>5. FloatLoop'
        <5>1. \A m \in 1 .. k' - 1 : Good(m)'
          BY <1>1, <4>2
        <5> QED
          BY <1>1, <2>1, <3>1, <3>6, <4>1, <5>1 DEF FloatLoop, Good
      <4> QED
        BY <1>1, <2>2, <3>1, <4>1, <4>4, <4>5 DEF FloatInv
    <3> QED
      BY <2>1, <3>1, <3>4, <3>5, <3>6
  <2> QED
    BY <1>6, <2>4, <2>5 DEF Floats!UnityAssertWithinFloatArray
<1> QED
  BY <1>3, <1>4, <1>5, <1>6 DEF Floats!Next

-----------------------------------------------------------------------------
(* Powers of two, by counting subsets.                                      *)

LEMMA PowerCounts ==
  ASSUME NEW x \in Nat
  PROVE  /\ IsFiniteSet(SUBSET (1 .. x)) /\ Cardinality(SUBSET (1 .. x)) = 2^x
         /\ 2^x \in Nat \ {0}
<1>1. IsFiniteSet(1 .. x) /\ Cardinality(1 .. x) = x
  BY FS_Interval
<1>2. IsFiniteSet(SUBSET (1 .. x)) /\ Cardinality(SUBSET (1 .. x)) = 2^x
  BY <1>1, FS_SUBSET
<1>3. Cardinality(SUBSET (1 .. x)) \in Nat
  BY <1>2, FS_CardinalityType
<1>4. SUBSET (1 .. x) # {}
  BY {} \in SUBSET (1 .. x)
<1>5. Cardinality(SUBSET (1 .. x)) # 0
  BY <1>2, <1>4, FS_EmptySet
<1> QED
  BY <1>2, <1>3, <1>5

LEMMA PowerDoubles ==
  ASSUME NEW x \in Nat
  PROVE  2^(x + 1) = 2 * 2^x
<1> DEFINE S == SUBSET (1 .. x)
           Added(A) == A \cup {x + 1}
           T == {Added(A) : A \in S}
           f == [A \in S |-> Added(A)]
<1>1. S \cup T = SUBSET (1 .. x + 1)
  <2>1. 1 .. x + 1 = (1 .. x) \cup {x + 1}
    OBVIOUS
  <2>2. ASSUME NEW B \in SUBSET (1 .. x + 1)
        PROVE  B \in S \cup T
    <3>1. CASE x + 1 \in B
      <4>1. B \ {x + 1} \in S /\ B = Added(B \ {x + 1})
        BY <2>1, <3>1
      <4> QED
        BY <4>1
    <3>2. CASE x + 1 \notin B
      BY <2>1, <3>2
    <3> QED
      BY <3>1, <3>2
  <2>3. S \cup T \subseteq SUBSET (1 .. x + 1)
    BY <2>1
  <2> QED
    BY <2>2, <2>3
<1>2. S \cap T = {}
  OBVIOUS
<1>3. f \in Bijection(S, T)
  <2>1. \A A, B \in S : Added(A) = Added(B) => A = B
    OBVIOUS
  <2>2. f \in [S -> T] /\ DOMAIN f = S
    OBVIOUS
  <2>3. IsInjective(f)
    BY <2>1 DEF IsInjective
  <2>4. \A B \in T : \E A \in S : f[A] = B
    OBVIOUS
  <2> HIDE DEF f, S, T
  <2> QED
    BY <2>2, <2>3, <2>4 DEF Bijection, Injection, Surjection
<1> HIDE DEF f, S, T
<1>4. IsFiniteSet(S) /\ Cardinality(S) = 2^x /\ 2^x \in Nat
  BY PowerCounts DEF S
<1>5. IsFiniteSet(T) /\ Cardinality(T) = Cardinality(S)
  BY <1>3, <1>4, FS_Bijection DEF ExistsBijection
<1>6. Cardinality(S \cup T) = Cardinality(S) + Cardinality(T) - Cardinality(S \cap T)
  BY <1>4, <1>5, FS_Union
<1>7. Cardinality(SUBSET (1 .. x + 1)) = 2^(x + 1)
  BY PowerCounts
<1>8. Cardinality(S \cap T) = 0
  BY <1>2, FS_EmptySet
<1>9. 2^(x + 1) = Cardinality(S) + Cardinality(T) - Cardinality(S \cap T)
  BY <1>1, <1>6, <1>7
<1> DEFINE p == 2^x
<1>10. p \in Nat /\ 2^(x + 1) = p + p - 0
  BY <1>4, <1>5, <1>8, <1>9
<1> QED
  <2> HIDE DEF p
  <2>1. 2^(x + 1) = 2 * p
    BY <1>10
  <2> QED
    BY <2>1 DEF p

LEMMA PowerGrows ==
  ASSUME NEW x \in Nat, NEW y \in Nat, x <= y
  PROVE  2^x <= 2^y
<1> DEFINE S == SUBSET (1 .. x)
           T == SUBSET (1 .. y)
<1>1. S \in SUBSET T
  OBVIOUS
<1>2. Cardinality(S) = 2^x /\ Cardinality(T) = 2^y /\ IsFiniteSet(T)
  BY PowerCounts
<1> HIDE DEF S, T
<1>3. Cardinality(S) <= Cardinality(T)
  BY <1>1, <1>2, FS_Subset
<1> QED
  BY <1>2, <1>3

-----------------------------------------------------------------------------
(* Words of 1, 2, 4 and 8 bytes.                                            *)

\* The number of patterns of w bytes, and of those without the sign bit.
Patterns(w) == 2^(ByteBits * w)
Half(w) == 2^(ByteBits * w - 1)

LEMMA WordSizes ==
  ASSUME NEW w \in {1, 2, 4, 8}
  PROVE  /\ Half(w) \in Nat \ {0} /\ Patterns(w) = 2 * Half(w)
         /\ Half(8) \in Nat \ {0} /\ Patterns(8) = 2 * Half(8)
         /\ Patterns(w) <= Patterns(8)
         /\ w # 8 => Patterns(w) <= Half(8)
         /\ 2^(8 * ByteBits) = Patterns(8)
<1>1. ByteBits \in Nat \ {0}
  BY WordAssumption
<1>3. \A v \in {1, 2, 4, 8} : Half(v) \in Nat \ {0} /\ Patterns(v) = 2 * Half(v)
  <2> SUFFICES ASSUME NEW v \in {1, 2, 4, 8}
               PROVE  Half(v) \in Nat \ {0} /\ Patterns(v) = 2 * Half(v)
    OBVIOUS
  <2> DEFINE h == ByteBits * v - 1
  <2>1. h \in Nat /\ h + 1 = ByteBits * v
    BY <1>1
  <2> HIDE DEF h
  <2>2. 2^h \in Nat \ {0} /\ 2^(h + 1) = 2 * 2^h
    BY <2>1, PowerCounts, PowerDoubles
  <2> QED
    BY <2>1, <2>2 DEF Half, Patterns, h
<1>4. Patterns(w) <= Patterns(8) /\ (w # 8 => Patterns(w) <= Half(8))
  <2> DEFINE b == ByteBits * w
             c == ByteBits * 8
  <2>1. /\ b \in Nat /\ c \in Nat /\ c - 1 \in Nat /\ b <= c
        /\ w # 8 => b <= c - 1
    BY <1>1
  <2> HIDE DEF b, c
  <2>2. 2^b <= 2^c /\ (w # 8 => 2^b <= 2^(c - 1))
    BY <2>1, PowerGrows
  <2> QED
    BY <2>2 DEF Half, Patterns, b, c
<1>5. 8 * ByteBits = ByteBits * 8
  BY <1>1
<1> QED
  BY <1>3, <1>4, <1>5 DEF Patterns

\* What a UNITY_INT can hold.
WordInts == (-Half(8)) .. Half(8) - 1

LEMMA ModuloNear ==
  ASSUME NEW M \in Nat \ {0}, NEW x \in Int
  PROVE  /\ x % M \in 0 .. M - 1
         /\ x \in 0 .. M - 1 => x % M = x
         /\ x \in (-M) .. -1 => x % M = x + M
         /\ x \in M .. M + M - 1 => x % M = x - M
<1> DEFINE q == x \div M
           r == x % M
<1>1. q \in Int /\ r \in Int /\ x = M * q + r /\ 0 <= r /\ r < M
  BY Z3
<1>2. ASSUME x \in 0 .. M - 1 PROVE r = x
  <2>1. q = 0
    BY <1>1, <1>2, Z3
  <2> QED
    BY <1>1, <2>1, Z3
<1>3. ASSUME x \in (-M) .. -1 PROVE r = x + M
  <2>1. q = -1
    BY <1>1, <1>3, Z3
  <2> QED
    BY <1>1, <2>1, Z3
<1>4. ASSUME x \in M .. M + M - 1 PROVE r = x - M
  <2>1. q = 1
    BY <1>1, <1>4, Z3
  <2> QED
    BY <1>1, <2>1, Z3
<1> QED
  BY <1>1, <1>2, <1>3, <1>4

LEMMA LowIsPattern ==
  ASSUME NEW w \in {1, 2, 4, 8}, NEW v \in Int
  PROVE  /\ Low(v, w) \in 0 .. Patterns(w) - 1
         /\ v \in 0 .. Patterns(w) - 1 => Low(v, w) = v
<1>1. Patterns(w) \in Nat \ {0}
  BY WordSizes
<1> QED
  BY <1>1, ModuloNear DEF Low, Patterns

\* A pattern of w bytes and its reading as a signed number.
LEMMA SignedIsNumber ==
  ASSUME NEW w \in {1, 2, 4, 8}, NEW p \in 0 .. Patterns(w) - 1
  PROVE  /\ Signed(p, w) = IF p < Half(w) THEN p ELSE p - Patterns(w)
         /\ Signed(p, w) \in (-Half(w)) .. Half(w) - 1
         /\ Signed(p, w) \in WordInts
<1> DEFINE v == Signed(p, w)
<1>1. v = IF p < Half(w) THEN p ELSE p - Patterns(w)
  BY DEF Signed, Half, Patterns
<1> HIDE DEF v
<1> QED
  BY <1>1, WordSizes DEF WordInts, v

\* UNITY_INT and UNITY_UINT are inverse to each other.
LEMMA CastsAreInverse ==
  /\ \A p \in 0 .. Patterns(8) - 1 :
       UNITY_INT(p) \in WordInts /\ UNITY_UINT(UNITY_INT(p)) = p /\ UNITY_UINT(p) = p
  /\ \A x \in WordInts :
       /\ UNITY_UINT(x) \in 0 .. Patterns(8) - 1
       /\ UNITY_UINT(x) = IF x >= 0 THEN x ELSE x + Patterns(8)
<1>1. Patterns(8) \in Nat \ {0} /\ Half(8) \in Nat \ {0} /\ Patterns(8) = 2 * Half(8)
  BY WordSizes
<1>2. ASSUME NEW x \in WordInts
      PROVE  /\ UNITY_UINT(x) \in 0 .. Patterns(8) - 1
             /\ UNITY_UINT(x) = IF x >= 0 THEN x ELSE x + Patterns(8)
  <2>1. x \in Int /\ (x \in 0 .. Patterns(8) - 1 \/ x \in (-Patterns(8)) .. -1)
    BY <1>1 DEF WordInts
  <2>2. UNITY_UINT(x) = x % Patterns(8)
    BY DEF UNITY_UINT, Low, Patterns
  <2> DEFINE M == Patterns(8)
             r == x % M
  <2>3. /\ x \in 0 .. M - 1 => r = x
        /\ x \in (-M) .. -1 => r = x + M
    BY <1>1, <2>1, ModuloNear
  <2>4. M \in Nat \ {0} /\ UNITY_UINT(x) = r
    BY <1>1, <2>2
  <2> HIDE DEF r, M
  <2>5. /\ x \in 0 .. M - 1 \/ x \in (-M) .. -1
        /\ UNITY_UINT(x) \in 0 .. M - 1
        /\ UNITY_UINT(x) = IF x >= 0 THEN x ELSE x + M
    BY <2>1, <2>3, <2>4 DEF M
  <2> QED
    BY <2>5 DEF M
<1>3. ASSUME NEW p \in 0 .. Patterns(8) - 1
      PROVE  UNITY_INT(p) \in WordInts /\ UNITY_UINT(UNITY_INT(p)) = p /\ UNITY_UINT(p) = p
  <2>1. UNITY_UINT(p) = p
    BY <1>1, LowIsPattern DEF UNITY_UINT
  <2>2. /\ UNITY_INT(p) = IF p < Half(8) THEN p ELSE p - Patterns(8)
        /\ UNITY_INT(p) \in WordInts
    BY <2>1, SignedIsNumber DEF UNITY_INT
  <2>3. UNITY_UINT(UNITY_INT(p)) =
          IF UNITY_INT(p) >= 0 THEN UNITY_INT(p) ELSE UNITY_INT(p) + Patterns(8)
    BY <1>2, <2>2
  <2> QED
    BY <1>1, <2>1, <2>2, <2>3
<1> QED
  BY <1>2, <1>3

\* The difference of two UNITY_INTs, taken in UNITY_UINT.
LEMMA DifferenceWraps ==
  ASSUME NEW x \in WordInts, NEW y \in WordInts
  PROVE  /\ x >= y => UNITY_UINT(UNITY_UINT(x) - UNITY_UINT(y)) = x - y
         /\ UNITY_UINT(x) >= UNITY_UINT(y) =>
              UNITY_UINT(UNITY_UINT(x) - UNITY_UINT(y)) = UNITY_UINT(x) - UNITY_UINT(y)
<1> DEFINE X == UNITY_UINT(x)
           Y == UNITY_UINT(y)
           M == Patterns(8)
           d == X - Y
<1>1. M \in Nat \ {0} /\ Half(8) \in Nat \ {0} /\ M = 2 * Half(8)
  BY WordSizes
<1>2. /\ X \in 0 .. M - 1 /\ X = IF x >= 0 THEN x ELSE x + M
      /\ Y \in 0 .. M - 1 /\ Y = IF y >= 0 THEN y ELSE y + M
  BY CastsAreInverse
<1>3. UNITY_UINT(d) = d % M
  BY DEF UNITY_UINT, Low, Patterns
<1> HIDE DEF X, Y, M
<1>4. d \in Int
  BY <1>1, <1>2
<1>5. x \in Int /\ y \in Int /\ (-M) <= 2 * x /\ 2 * x < M /\ (-M) <= 2 * y /\ 2 * y < M
  BY <1>1 DEF WordInts
<1>6. ASSUME x >= y PROVE UNITY_UINT(d) = x - y
  <2>1. \/ d = x - y /\ d \in 0 .. M - 1
        \/ d = x - y + M /\ d \in M .. M + M - 1
        \/ d = x - y - M /\ d \in (-M) .. -1
    BY <1>1, <1>2, <1>5, <1>6
  <2>2. /\ d \in 0 .. M - 1 => d % M = d
        /\ d \in (-M) .. -1 => d % M = d + M
        /\ d \in M .. M + M - 1 => d % M = d - M
    <3>1. d \in Int /\ M \in Nat \ {0}
      BY <1>1, <1>4
    <3> HIDE DEF d
    <3> QED
      BY <3>1, ModuloNear, Zenon
  <2> DEFINE r == d % M
  <2>3. /\ d \in 0 .. M - 1 => r = d
        /\ d \in (-M) .. -1 => r = d + M
        /\ d \in M .. M + M - 1 => r = d - M
    BY <2>2
  <2>4. UNITY_UINT(d) = r
    BY <1>3
  <2> HIDE DEF d, r
  <2> QED
    BY <1>1, <1>5, <2>1, <2>3, <2>4
<1>7. ASSUME X >= Y PROVE UNITY_UINT(d) = X - Y
  <2>1. d \in 0 .. M - 1
    BY <1>1, <1>2, <1>7
  <2> QED
    BY <1>1, <1>3, <1>4, <2>1, ModuloNear
<1> QED
  BY <1>6, <1>7 DEF d, X, Y

\* The UNITY_INT v stands for the number m of the style.
StandsFor(style, v, m) ==
  /\ v \in WordInts /\ m \in Int
  /\ IsSigned(style) => v = m
  /\ ~IsSigned(style) => UNITY_UINT(v) = m

LEMMA ComparisonsAreOfNumbers ==
  ASSUME NEW style, NEW e, NEW en, NEW a, NEW an, NEW delta \in Int,
         StandsFor(style, e, en), StandsFor(style, a, an)
  PROVE  /\ e = a <=> en = an
         /\ IsSigned(style) => (e < a <=> en < an)
         /\ ~IsSigned(style) => (UNITY_UINT(e) < UNITY_UINT(a) <=> en < an)
         /\ Differs(style, delta, e, a) <=> en - an > delta \/ an - en > delta
<1> DEFINE E == UNITY_UINT(e)
           A == UNITY_UINT(a)
<1>1. e \in Int /\ a \in Int /\ en \in Int /\ an \in Int /\ e \in WordInts /\ a \in WordInts
  BY WordSizes DEF StandsFor, WordInts
<1>2. /\ E \in 0 .. Patterns(8) - 1 /\ E = IF e >= 0 THEN e ELSE e + Patterns(8)
      /\ A \in 0 .. Patterns(8) - 1 /\ A = IF a >= 0 THEN a ELSE a + Patterns(8)
  BY <1>1, CastsAreInverse
<1>3. /\ e >= a => UNITY_UINT(E - A) = e - a
      /\ a >= e => UNITY_UINT(A - E) = a - e
      /\ E >= A => UNITY_UINT(E - A) = E - A
      /\ A >= E => UNITY_UINT(A - E) = A - E
  BY <1>1, DifferenceWraps
<1>4. Patterns(8) \in Nat /\ Half(8) \in Nat /\ Patterns(8) = 2 * Half(8)
  BY WordSizes
<1>5. /\ IsSigned(style) => e = en /\ a = an
      /\ ~IsSigned(style) => E = en /\ A = an
  BY DEF StandsFor
<1>6. Differs(style, delta, e, a) <=>
        IF IF IsSigned(style) THEN a > e ELSE A > E
          THEN UNITY_UINT(A - E) > delta ELSE UNITY_UINT(E - A) > delta
  BY DEF Differs
<1>7. e = a <=> E = A
  BY <1>1, <1>2, <1>4 DEF WordInts
<1> HIDE DEF E, A
<1>8. E \in Int /\ A \in Int
  BY <1>2, <1>4
<1>9. Differs(style, delta, e, a) <=> en - an > delta \/ an - en > delta
  <2>1. CASE IsSigned(style)
    BY <1>1, <1>3, <1>5, <1>6, <1>8, <2>1
  <2>2. CASE ~IsSigned(style)
    BY <1>1, <1>3, <1>5, <1>6, <1>8, <2>2
  <2> QED
    BY <2>1, <2>2
<1> QED
  BY <1>1, <1>5, <1>7, <1>8, <1>9 DEF E, A

-----------------------------------------------------------------------------
(* Assertions on arrays of integers.                                        *)

LEMMA WordsOfArrays ==
  /\ \A style : Arrays!IsSigned(style) = IsSigned(style)
  /\ \A v, w : Arrays!Low(v, w) = Low(v, w)
  /\ \A p, w : Arrays!Signed(p, w) = Signed(p, w)
  /\ \A v : Arrays!UNITY_UINT(v) = UNITY_UINT(v) /\ Arrays!UNITY_INT(v) = UNITY_INT(v)
  /\ \A style, delta, e, a : Arrays!Differs(style, delta, e, a) = Differs(style, delta, e, a)
  /\ \A style, p : Arrays!NumberOf(style, p) = NumberOf(style, p)
BY DEF Arrays!IsSigned, IsSigned, Arrays!Low, Low, Arrays!Signed, Signed, Arrays!UNITY_UINT,
       UNITY_UINT, Arrays!UNITY_INT, UNITY_INT, Arrays!Differs, Differs, Arrays!NumberOf, NumberOf

LEMMA StyleIsKnown ==
  ASSUME NEW style \in UNITY_DISPLAY_STYLE_T
  PROVE  style.length \in {1, 2, 4, 8}
BY DEF UNITY_DISPLAY_STYLE_T

\* A pattern that is read as its style says stands for its number.
LEMMA LoadedNumber ==
  ASSUME NEW style \in UNITY_DISPLAY_STYLE_T, NEW p \in 0 .. Patterns(style.length) - 1
  PROVE  StandsFor(style, Arrays!Load(style, p), NumberOf(style, p))
<1> DEFINE w == style.length
<1>1. w \in {1, 2, 4, 8} /\ Patterns(w) \in Nat /\ Patterns(w) <= Patterns(8) /\ Patterns(8) \in Nat
  BY StyleIsKnown, WordSizes
<1>2. Signed(p, w) \in WordInts
  BY <1>1, SignedIsNumber
<1>3. p \in 0 .. Patterns(8) - 1 /\ p \in Int
  BY <1>1
<1>4. UNITY_INT(p) \in WordInts /\ UNITY_UINT(UNITY_INT(p)) = p
  BY <1>3, CastsAreInverse
<1>5. Signed(p, w) \in Int
  BY <1>2, WordSizes DEF WordInts
<1> QED
  BY <1>2, <1>3, <1>4, <1>5, WordsOfArrays DEF StandsFor, Arrays!Load, NumberOf

ArrayCall ==
  /\ call.style \in UNITY_DISPLAY_STYLE_T
  /\ call.num_elements \in Nat /\ call.to_array \in BOOLEAN /\ call.delta \in Nat
  /\ call.function \in {"equal", "within"}
  /\ call.function = "equal" => call.delta = 0
  /\ DOMAIN memory.a = 1 .. call.num_elements
  /\ DOMAIN memory.e = IF call.to_array THEN 1 .. call.num_elements ELSE {1}
  /\ \A m \in DOMAIN memory.e : memory.e[m] \in 0 .. Patterns(call.style.length) - 1
  /\ \A m \in DOMAIN memory.a : memory.a[m] \in 0 .. Patterns(call.style.length) - 1

\* The loops are at an element, and those before it are near enough.
ArrayLoop ==
  LET at == call.num_elements - elements + 1
  IN  /\ call.num_elements > 0 /\ elements \in 0 .. call.num_elements
      /\ expected = [buffer |-> "e", at |-> IF call.to_array THEN at ELSE 1]
      /\ actual = [buffer |-> "a", at |-> at]
      /\ \A m \in 1 .. at - 1 : m \notin Arrays!Wrong

ArrayInv ==
  /\ ArrayCall
  /\ outcome \in {"entered", "running", "passed", "failed"}
  /\ outcome \in {"entered", "running"} => report = Arrays!NoReport
  /\ outcome = "entered" =>
       /\ elements = call.num_elements
       /\ expected \in {NullPtr, Arrays!Start("e"), Arrays!Start("a")}
       /\ actual \in {NullPtr, Arrays!Start("a")}
  /\ outcome = "running" => ArrayLoop
  /\ outcome = "passed" => call.num_elements > 0
  /\ Arrays!ComparesNumbers

LEMMA ArrayReads ==
  ASSUME ArrayInv
  PROVE  Arrays!ReadsWhatIsThere
<1>1. ASSUME outcome = "running", elements > 0
      PROVE  /\ expected.at \in DOMAIN memory[expected.buffer]
             /\ actual.at \in DOMAIN memory[actual.buffer]
  BY <1>1 DEF ArrayInv, ArrayLoop, ArrayCall
<1> QED
  BY <1>1 DEF ArrayInv, Arrays!ReadsWhatIsThere

\* Where the loops are, the elements read stand for those of the arrays.
LEMMA ElementsStandFor ==
  ASSUME ArrayCall, NEW m \in 1 .. call.num_elements
  PROVE  /\ StandsFor(call.style, Arrays!Load(call.style, memory.a[m]), Arrays!ActualValue(m))
         /\ StandsFor(call.style,
               Arrays!Load(call.style, memory.e[IF call.to_array THEN m ELSE 1]),
               Arrays!ExpectedValue(m))
<1> DEFINE l == IF call.to_array THEN m ELSE 1
<1>1. /\ memory.a[m] \in 0 .. Patterns(call.style.length) - 1
      /\ memory.e[l] \in 0 .. Patterns(call.style.length) - 1
      /\ call.style \in UNITY_DISPLAY_STYLE_T
  BY DEF ArrayCall
<1> QED
  BY <1>1, LoadedNumber, WordsOfArrays DEF Arrays!ActualValue, Arrays!ExpectedValue

LEMMA WrongElements ==
  ASSUME ArrayCall, NEW m \in 1 .. call.num_elements
  PROVE  m \in Arrays!Wrong <=>
           \/ Arrays!ExpectedValue(m) - Arrays!ActualValue(m) > call.delta
           \/ Arrays!ActualValue(m) - Arrays!ExpectedValue(m) > call.delta
<1> DEFINE e == Arrays!ExpectedValue(m)
           a == Arrays!ActualValue(m)
<1>1. e \in Int /\ a \in Int /\ call.delta \in Int
  BY ElementsStandFor DEF StandsFor, ArrayCall
<1>2. m \in Arrays!Wrong <=> Arrays!Max({e - a, a - e}) > call.delta
  BY DEF Arrays!Wrong
<1> HIDE DEF e, a
<1>3. Arrays!Max({e - a, a - e}) = IF e - a >= a - e THEN e - a ELSE a - e
  BY <1>1 DEF Arrays!Max
<1> QED
  BY <1>1, <1>2, <1>3 DEF e, a

LEMMA ArrayStarts ==
  ASSUME Arrays!ArrayAssumption, Arrays!Init
  PROVE  ArrayInv
<1>1. PICK style \in ArrayStyles, num \in ArrayLengths, array \in BOOLEAN :
        /\ call \in [style : {style}, num_elements : {num}, to_array : {array},
                    function : {"equal"}, delta : {0}]
                 \cup [style : {style}, num_elements : {num}, to_array : {array},
                       function : {"within"}, delta : ArrayDeltas]
        /\ memory \in [e : IF array THEN [1 .. num -> ArrayPatterns(style.length)]
                           ELSE {Arrays!UnityNumToPtr(v, style.length) : v \in ArrayPatterns(8)},
                       a : [1 .. num -> ArrayPatterns(style.length)]]
        /\ expected \in {NullPtr, Arrays!Start("e"), Arrays!Start("a")}
        /\ actual \in {NullPtr, Arrays!Start("a")}
        /\ elements = num
        /\ outcome = "entered"
        /\ report = Arrays!NoReport
  BY DEF Arrays!Init
<1>2. /\ style \in UNITY_DISPLAY_STYLE_T /\ num \in Nat
      /\ ArrayPatterns(style.length) \subseteq 0 .. Patterns(style.length) - 1
      /\ ArrayPatterns(8) \subseteq Nat
      /\ ArrayDeltas \subseteq Nat
  <2>1. Arrays!UNITY_DISPLAY_STYLE_T = UNITY_DISPLAY_STYLE_T
    BY DEF Arrays!UNITY_DISPLAY_STYLE_T, UNITY_DISPLAY_STYLE_T
  <2>2. \A l \in {8} \cup {s.length : s \in ArrayStyles} :
          ArrayPatterns(l) \subseteq 0 .. Patterns(l) - 1
    BY DEF Arrays!ArrayAssumption, Patterns
  <2>3. /\ ArrayStyles \subseteq UNITY_DISPLAY_STYLE_T /\ ArrayLengths \subseteq Nat
        /\ ArrayDeltas \subseteq Nat
    BY <2>1 DEF Arrays!ArrayAssumption
  <2>4. style.length \in {8} \cup {s.length : s \in ArrayStyles}
    OBVIOUS
  <2>5. ArrayPatterns(8) \subseteq Nat
    <3>1. ArrayPatterns(8) \subseteq 0 .. Patterns(8) - 1
      BY <2>2
    <3> QED
      BY <3>1, WordSizes
  <2>6. ArrayPatterns(style.length) \subseteq 0 .. Patterns(style.length) - 1
    BY <2>2, <2>4
  <2>7. style \in UNITY_DISPLAY_STYLE_T /\ num \in Nat
    BY <2>3
  <2> QED
    BY <2>3, <2>5, <2>6, <2>7
<1>3. /\ call.style = style /\ call.num_elements = num /\ call.to_array = array
      /\ call.delta \in Nat /\ call.function \in {"equal", "within"}
      /\ call.function = "equal" => call.delta = 0
  <2>1. CASE call \in [style : {style}, num_elements : {num}, to_array : {array},
                       function : {"equal"}, delta : {0}]
    BY <2>1
  <2>2. CASE call \in [style : {style}, num_elements : {num}, to_array : {array},
                       function : {"within"}, delta : ArrayDeltas]
    BY <1>2, <2>2
  <2> QED
    BY <1>1, <2>1, <2>2
<1>4. /\ DOMAIN memory.a = 1 .. num
      /\ \A m \in 1 .. num : memory.a[m] \in 0 .. Patterns(style.length) - 1
  <2>1. memory.a \in [1 .. num -> ArrayPatterns(style.length)]
    BY <1>1
  <2> QED
    BY <1>2, <2>1
<1>5. /\ DOMAIN memory.e = IF array THEN 1 .. num ELSE {1}
      /\ \A m \in DOMAIN memory.e : memory.e[m] \in 0 .. Patterns(style.length) - 1
  <2>1. CASE array
    BY <1>1, <1>2, <2>1
  <2>2. CASE ~array
    <3>1. PICK v \in ArrayPatterns(8) : memory.e = << Low(v, style.length) >>
      BY <1>1, <2>2, WordsOfArrays DEF Arrays!UnityNumToPtr
    <3>2. Low(v, style.length) \in 0 .. Patterns(style.length) - 1
      BY <1>2, StyleIsKnown, LowIsPattern
    <3> QED
      BY <2>2, <3>1, <3>2
  <2> QED
    BY <2>1, <2>2
<1>6. ArrayCall
  BY <1>2, <1>3, <1>4, <1>5 DEF ArrayCall
<1> QED
  BY <1>1, <1>3, <1>6 DEF ArrayInv, Arrays!ComparesNumbers

LEMMA ArrayFixed ==
  ASSUME call' = call, memory' = memory
  PROVE  ArrayCall' = ArrayCall /\ Arrays!Wrong' = Arrays!Wrong
BY DEF ArrayCall, Arrays!Wrong, Arrays!ExpectedValue, Arrays!ActualValue

LEMMA ArrayStutters ==
  ASSUME ArrayInv, UNCHANGED Arrays!vars
  PROVE  ArrayInv'
<1>1. UNCHANGED <<call, outcome, report, memory, expected, actual, elements>>
  BY DEF Arrays!vars
<1>2. ArrayCall' = ArrayCall /\ Arrays!Wrong' = Arrays!Wrong
  BY <1>1, ArrayFixed
<1>3. Arrays!NothingToCompare' <=> Arrays!NothingToCompare
  BY <1>1 DEF Arrays!NothingToCompare, Arrays!UnityIsOneArrayNull
<1> QED
  BY <1>1, <1>2, <1>3
  DEF ArrayInv, ArrayLoop, Arrays!ComparesNumbers, Arrays!NoReport, Arrays!Start

\* Loops run over two arrays that there are.
LEMMA ArraysAreThere ==
  ASSUME Arrays!ArrayAssumption, ArrayCall, ArrayLoop
  PROVE  ~Arrays!NothingToCompare /\ expected # actual
<1>1. expected \in Arrays!Pointers /\ actual \in Arrays!Pointers /\ expected # actual
  BY DEF ArrayLoop, ArrayCall, Arrays!Pointers
<1> QED
  BY <1>1 DEF Arrays!ArrayAssumption, Arrays!NothingToCompare, Arrays!UnityIsOneArrayNull, ArrayLoop

LEMMA ArraySteps ==
  ASSUME Arrays!ArrayAssumption, ArrayInv, Arrays!Next
  PROVE  ArrayInv'
<1>1. CASE Arrays!Enter
  <2>1. /\ call' = call /\ memory' = memory /\ elements' = elements /\ report' = report
        /\ expected' = expected /\ actual' = actual /\ outcome = "entered"
    BY <1>1 DEF Arrays!Enter, Arrays!Loop
  <2>2. /\ ArrayCall /\ ArrayCall' /\ Arrays!Wrong' = Arrays!Wrong /\ report = Arrays!NoReport
        /\ elements = call.num_elements /\ call.num_elements \in Nat
    BY <2>1, ArrayFixed DEF ArrayInv, ArrayCall
  <2>3. /\ outcome' \in {"running", "passed", "failed"}
        /\ outcome' = "passed" => call.num_elements # 0 /\ expected = actual
        /\ outcome' = "running" =>
             call.num_elements # 0 /\ expected # actual /\ ~Arrays!UnityIsOneArrayNull
        /\ outcome' = "failed" <=> Arrays!NothingToCompare
    BY <1>1 DEF Arrays!Enter, Arrays!NothingToCompare, Arrays!UnityIsOneArrayNull
  <2>6. Arrays!NothingToCompare' <=> Arrays!NothingToCompare
    BY <2>1 DEF Arrays!NothingToCompare, Arrays!UnityIsOneArrayNull
  <2>4. Arrays!ComparesNumbers'
    BY <2>1, <2>2, <2>3, <2>6 DEF Arrays!ComparesNumbers, Arrays!NoReport
  <2>5. ASSUME outcome' = "running" PROVE ArrayLoop'
    <3>1. expected = Arrays!Start("e") /\ actual = Arrays!Start("a")
      BY <2>1, <2>3, <2>5 DEF ArrayInv, Arrays!UnityIsOneArrayNull
    <3> QED
      BY <2>1, <2>2, <2>3, <2>5, <3>1 DEF ArrayLoop, Arrays!Start
  <2> QED
    BY <2>1, <2>2, <2>3, <2>4, <2>5 DEF ArrayInv, Arrays!NoReport
<1>2. CASE Arrays!Finish
  <2>1. /\ call' = call /\ memory' = memory /\ elements' = elements /\ report' = report
        /\ expected' = expected /\ actual' = actual
        /\ outcome = "running" /\ outcome' = "passed" /\ elements = 0
    BY <1>2 DEF Arrays!Finish, Arrays!Loop
  <2>2. /\ ArrayCall /\ ArrayCall' /\ Arrays!Wrong' = Arrays!Wrong /\ report = Arrays!NoReport
        /\ ArrayLoop /\ call.num_elements \in Nat
    BY <2>1, ArrayFixed DEF ArrayInv, ArrayCall
  <2>3. Arrays!Wrong = {}
    BY <2>1, <2>2 DEF ArrayLoop, Arrays!Wrong
  <2>5. ~Arrays!NothingToCompare'
    BY <2>1, <2>2, ArraysAreThere DEF Arrays!NothingToCompare, Arrays!UnityIsOneArrayNull
  <2>4. Arrays!ComparesNumbers'
    BY <2>1, <2>2, <2>3, <2>5 DEF Arrays!ComparesNumbers, Arrays!NoReport
  <2> QED
    BY <2>1, <2>2, <2>4 DEF ArrayInv, ArrayLoop, Arrays!NoReport
<1>3. ASSUME Arrays!UnityAssertEqualIntArray \/ Arrays!UnityAssertNumbersArrayWithin
      PROVE  ArrayInv'
  <2> DEFINE m == call.num_elements - elements + 1
             l == IF call.to_array THEN m ELSE 1
             e == Arrays!ExpectedElement
             a == Arrays!ActualElement
  <2>1. PICK different \in BOOLEAN :
          /\ Arrays!Compare(different)
          /\ \/ call.function = "equal" /\ different = (e # a)
             \/ call.function = "within" /\ (different <=> Differs(call.style, call.delta, e, a))
    <3>1. CASE Arrays!UnityAssertEqualIntArray
      <4> WITNESS (e # a) \in BOOLEAN
      <4> QED
        BY <3>1 DEF Arrays!UnityAssertEqualIntArray
    <3>2. CASE Arrays!UnityAssertNumbersArrayWithin
      <4>1. Arrays!Differs(call.style, call.delta, e, a) = Differs(call.style, call.delta, e, a)
        BY WordsOfArrays, Zenon
      <4> DEFINE d == IF Differs(call.style, call.delta, e, a) THEN TRUE ELSE FALSE
      <4>2. d \in BOOLEAN /\ (d <=> Differs(call.style, call.delta, e, a))
        OBVIOUS
      <4> HIDE DEF e, a, d
      <4>3. Arrays!Compare(d) /\ call.function = "within"
        BY <3>2, <4>1, <4>2, Zenon DEF Arrays!UnityAssertNumbersArrayWithin, Arrays!Compare, e, a
      <4> QED
        BY <4>2, <4>3
    <3> QED
      BY <1>3, <3>1, <3>2
  <2>2. /\ outcome = "running" /\ elements > 0 /\ elements' = elements - 1
        /\ call' = call /\ memory' = memory
    BY <2>1 DEF Arrays!Compare
  <2>3. /\ ArrayCall /\ ArrayCall' /\ Arrays!Wrong' = Arrays!Wrong /\ report = Arrays!NoReport
        /\ ArrayLoop /\ call.num_elements \in Nat
    BY <2>2, ArrayFixed DEF ArrayInv, ArrayCall
  <2>4. /\ m \in 1 .. call.num_elements /\ elements \in Nat
        /\ expected = [buffer |-> "e", at |-> l] /\ actual = [buffer |-> "a", at |-> m]
        /\ \A x \in 1 .. m - 1 : x \notin Arrays!Wrong
    BY <2>2, <2>3 DEF ArrayLoop
  <2>5. /\ e = Arrays!Load(call.style, memory.e[l])
        /\ a = Arrays!Load(call.style, memory.a[m])
    BY <2>4 DEF Arrays!ExpectedElement, Arrays!ActualElement, Arrays!At
  <2>6. different <=> m \in Arrays!Wrong
    <3> DEFINE en == Arrays!ExpectedValue(m)
               an == Arrays!ActualValue(m)
    <3>1. StandsFor(call.style, e, en) /\ StandsFor(call.style, a, an)
      BY <2>3, <2>4, <2>5, ElementsStandFor
    <3>2. m \in Arrays!Wrong <=> en - an > call.delta \/ an - en > call.delta
      BY <2>3, <2>4, WrongElements
    <3> HIDE DEF e, a, en, an, m
    <3>3. /\ e = a <=> en = an
          /\ Differs(call.style, call.delta, e, a) <=>
               en - an > call.delta \/ an - en > call.delta
      BY <2>3, <3>1, ComparisonsAreOfNumbers DEF ArrayCall
    <3>4. en \in Int /\ an \in Int
      BY <3>1 DEF StandsFor
    <3> QED
      BY <2>1, <2>3, <3>2, <3>3, <3>4 DEF ArrayCall
  <2> HIDE DEF e, a
  <2>7. CASE different
    <3>1. /\ outcome' = "failed" /\ report' = Arrays!Report(elements', e, a)
      BY <2>1, <2>7 DEF Arrays!Compare, e, a
    <3>2. report'.element + 1 = m
      BY <2>2, <2>3, <2>4, <3>1 DEF Arrays!Report
    <3>3. \A x \in Arrays!Wrong : m <= x
      BY <2>4 DEF Arrays!Wrong
    <3>5. ~Arrays!NothingToCompare' /\ expected' # actual'
      <4>1. expected' = expected /\ actual' = actual
        BY <2>1, <2>7 DEF Arrays!Compare
      <4> QED
        BY <2>2, <2>3, <4>1, ArraysAreThere DEF Arrays!NothingToCompare, Arrays!UnityIsOneArrayNull
    <3>6. report' # Arrays!NoReport
      BY <2>4, <3>2 DEF Arrays!NoReport
    <3>4. Arrays!ComparesNumbers'
      BY <2>3, <2>6, <2>7, <3>1, <3>2, <3>3, <3>5, <3>6 DEF Arrays!ComparesNumbers, Arrays!NoReport
    <3> QED
      BY <2>3, <3>1, <3>4 DEF ArrayInv
  <2>8. CASE ~different
    <3>1. /\ outcome' = "running" /\ report' = report
          /\ expected' = [buffer |-> "e", at |-> IF call.to_array THEN m + 1 ELSE 1]
          /\ actual' = [buffer |-> "a", at |-> m + 1]
      BY <2>1, <2>2, <2>4, <2>8 DEF Arrays!Compare, Arrays!Step
    <3>2. call.num_elements' - elements' + 1 = m + 1
      BY <2>2, <2>3, <2>4
    <3>3. \A x \in 1 .. m : x \notin Arrays!Wrong
      BY <2>4, <2>6, <2>8
    <3>4. ArrayLoop'
      BY <2>2, <2>3, <2>4, <3>1, <3>2, <3>3 DEF ArrayLoop
    <3>5. Arrays!ComparesNumbers'
      BY <2>3, <3>1 DEF Arrays!ComparesNumbers, Arrays!NoReport
    <3> QED
      BY <2>3, <3>1, <3>4, <3>5 DEF ArrayInv, Arrays!NoReport
  <2> QED
    BY <2>1, <2>7, <2>8
<1> QED
  BY <1>1, <1>2, <1>3 DEF Arrays!Next

-----------------------------------------------------------------------------
(* Assertions on two integers.                                              *)

LEMMA WordsOfNumbers ==
  /\ \A style : Numbers!IsSigned(style) = IsSigned(style)
  /\ \A v, w : Numbers!Low(v, w) = Low(v, w)
  /\ \A p, w : Numbers!Signed(p, w) = Signed(p, w)
  /\ \A v : Numbers!UNITY_UINT(v) = UNITY_UINT(v) /\ Numbers!UNITY_INT(v) = UNITY_INT(v)
  /\ \A style, delta, e, a : Numbers!Differs(style, delta, e, a) = Differs(style, delta, e, a)
  /\ \A style, p : Numbers!NumberOf(style, p) = NumberOf(style, p)
BY DEF Numbers!IsSigned, IsSigned, Numbers!Low, Low, Numbers!Signed, Signed, Numbers!UNITY_UINT,
       UNITY_UINT, Numbers!UNITY_INT, UNITY_INT, Numbers!Differs, Differs, Numbers!NumberOf,
       NumberOf

\* The number of a macro's type that v is converted to.
Converted(type, v) == NumberOf([type.style EXCEPT !.length = type.bytes], Low(v, type.bytes))

LEMMA TypeIsKnown ==
  ASSUME Numbers!TypesAssumption, NEW type \in NumberTypes
  PROVE  /\ type.style \in UNITY_DISPLAY_STYLE_T /\ type.bytes \in {1, 2, 4, 8}
         /\ type.style.range \in {"INT", "UINT", "HEX", "CHAR"}
<1>1. Numbers!UNITY_DISPLAY_STYLE_T = UNITY_DISPLAY_STYLE_T
  BY DEF Numbers!UNITY_DISPLAY_STYLE_T, UNITY_DISPLAY_STYLE_T
<1>2. type.style \in UNITY_DISPLAY_STYLE_T /\ (type.bytes = type.style.length \/ type.bytes = 8)
  BY <1>1 DEF Numbers!TypesAssumption
<1> QED
  BY <1>2, StyleIsKnown DEF UNITY_DISPLAY_STYLE_T

LEMMA ConvertedIsRead ==
  ASSUME Numbers!TypesAssumption, NEW type \in NumberTypes, NEW v
  PROVE  Converted(type, v) = IF IsSigned(type.style) THEN Signed(Low(v, type.bytes), type.bytes)
                                                      ELSE Low(v, type.bytes)
<1> DEFINE style == [type.style EXCEPT !.length = type.bytes]
<1>1. style.length = type.bytes /\ style.range = type.style.range
  BY TypeIsKnown DEF UNITY_DISPLAY_STYLE_T
<1> HIDE DEF style
<1>2. NumberOf(style, Low(v, type.bytes)) =
        IF IsSigned(type.style) THEN Signed(Low(v, type.bytes), type.bytes)
                                ELSE Low(v, type.bytes)
  BY <1>1 DEF NumberOf, IsSigned
<1> QED
  BY <1>2 DEF Converted, style

LEMMA ArgumentStandsFor ==
  ASSUME Numbers!TypesAssumption, NEW type \in NumberTypes, NEW v \in Int
  PROVE  StandsFor(type.style, Numbers!Argument(type, v), Converted(type, v))
<1> DEFINE w == type.bytes
           p == Low(v, w)
<1>1. w \in {1, 2, 4, 8}
  BY TypeIsKnown
<1>2. p \in 0 .. Patterns(w) - 1
  BY <1>1, LowIsPattern
<1>3. p \in 0 .. Patterns(8) - 1 /\ p \in Int
  BY <1>1, <1>2, WordSizes
<1> HIDE DEF p, w
<1>4. Signed(p, w) \in WordInts
  BY <1>1, <1>2, SignedIsNumber
<1>5. UNITY_INT(p) \in WordInts /\ UNITY_UINT(UNITY_INT(p)) = p
  BY <1>3, CastsAreInverse
<1>6. Converted(type, v) = IF IsSigned(type.style) THEN Signed(p, w) ELSE p
  BY ConvertedIsRead DEF p, w
<1>7. Numbers!Argument(type, v) = IF IsSigned(type.style) THEN Signed(p, w) ELSE UNITY_INT(p)
  BY WordsOfNumbers DEF Numbers!Argument, p, w
<1>8. Signed(p, w) \in Int
  BY <1>4, WordSizes DEF WordInts
<1> QED
  BY <1>3, <1>4, <1>5, <1>6, <1>7, <1>8 DEF StandsFor

\* EQUAL casts a HEX to a signed type as well, on both sides.
LEMMA EqualArguments ==
  ASSUME Numbers!TypesAssumption, NEW type \in NumberTypes, NEW v \in Int, NEW u \in Int
  PROVE  Numbers!EqualArgument(type, v) = Numbers!EqualArgument(type, u)
           <=> Converted(type, v) = Converted(type, u)
<1> DEFINE w == type.bytes
           p == Low(v, w)
           q == Low(u, w)
<1>1. w \in {1, 2, 4, 8} /\ Patterns(w) \in Nat /\ Half(w) \in Nat
      /\ Patterns(8) \in Nat /\ Patterns(w) <= Patterns(8)
  BY TypeIsKnown, WordSizes
<1>2. p \in 0 .. Patterns(w) - 1 /\ q \in 0 .. Patterns(w) - 1
  BY <1>1, LowIsPattern
<1> HIDE DEF p, q, w
<1>3. Signed(p, w) = Signed(q, w) <=> p = q
  <2>1. /\ Signed(p, w) \in (-Half(w)) .. Half(w) - 1
        /\ Signed(p, w) = IF p < Half(w) THEN p ELSE p - Patterns(w)
        /\ Signed(q, w) = IF q < Half(w) THEN q ELSE q - Patterns(w)
    BY <1>1, <1>2, SignedIsNumber
  <2> QED
    BY <1>1, <1>2, <2>1
<1>4. UNITY_INT(p) = UNITY_INT(q) <=> p = q
  <2>1. p \in 0 .. Patterns(8) - 1 /\ q \in 0 .. Patterns(8) - 1
    BY <1>1, <1>2
  <2>2. UNITY_UINT(UNITY_INT(p)) = p /\ UNITY_UINT(UNITY_INT(q)) = q
    BY <2>1, CastsAreInverse
  <2> QED
    BY <2>2
<1>5. /\ Converted(type, v) = IF IsSigned(type.style) THEN Signed(p, w) ELSE p
      /\ Converted(type, u) = IF IsSigned(type.style) THEN Signed(q, w) ELSE q
  BY ConvertedIsRead DEF p, q, w
<1>6. /\ Numbers!EqualArgument(type, v) =
           IF type.style.range = "UINT" THEN UNITY_INT(p) ELSE Signed(p, w)
      /\ Numbers!EqualArgument(type, u) =
           IF type.style.range = "UINT" THEN UNITY_INT(q) ELSE Signed(q, w)
  BY WordsOfNumbers DEF Numbers!EqualArgument, p, q, w
<1> QED
  BY <1>3, <1>4, <1>5, <1>6

NumberInv ==
  /\ call.relation \in Numbers!Relations \cup {"WITHIN", "BITS"}
  /\ call.relation # "BITS" =>
       call.type \in NumberTypes /\ call.expected \in Int /\ call.actual \in Int
  /\ outcome \in {"entered", "passed", "failed"}
  /\ Numbers!JudgesNumbers

LEMMA NumberStarts ==
  ASSUME Numbers!TypesAssumption, Numbers!Init
  PROVE  NumberInv
<1>1. outcome = "entered"
  BY DEF Numbers!Init
<1>2. NumberValues \subseteq Int
  BY DEF Numbers!TypesAssumption
<1>3. CASE call \in [relation : Numbers!Relations, type : NumberTypes,
                     expected : NumberValues, actual : NumberValues]
  BY <1>1, <1>2, <1>3 DEF NumberInv, Numbers!JudgesNumbers
<1>4. CASE call \in [relation : {"WITHIN"}, type : NumberTypes, expected : NumberValues,
                     actual : NumberValues, delta : NumberDeltas]
  BY <1>1, <1>2, <1>4 DEF NumberInv, Numbers!JudgesNumbers
<1>5. CASE call \in [relation : {"BITS"}, expected : NumberValues, actual : NumberValues,
                     mask : NumberMasks]
  BY <1>1, <1>5 DEF NumberInv, Numbers!JudgesNumbers
<1> QED
  BY <1>3, <1>4, <1>5 DEF Numbers!Init

LEMMA NumberStutters ==
  ASSUME NumberInv, UNCHANGED Numbers!vars
  PROVE  NumberInv'
BY DEF Numbers!vars, NumberInv, Numbers!JudgesNumbers, Numbers!DeltaFits, Numbers!IsWrong,
       Numbers!WrongBits, Numbers!Fails, Numbers!Number

\* A call that ends with the verdict its relation asks for keeps the invariant.
LEMMA VerdictIsRight ==
  ASSUME NumberInv, NEW failed, NEW shown, NEW other, Numbers!Conclude(failed, shown, other),
         Numbers!DeltaFits => (failed <=> Numbers!IsWrong)
  PROVE  NumberInv'
<1>1. call' = call /\ outcome' = IF failed THEN "failed" ELSE "passed"
  BY DEF Numbers!Conclude
<1>2. (Numbers!IsWrong' <=> Numbers!IsWrong) /\ (Numbers!DeltaFits' <=> Numbers!DeltaFits)
  BY <1>1 DEF Numbers!IsWrong, Numbers!WrongBits, Numbers!Fails, Numbers!Number, Numbers!DeltaFits
<1>3. Numbers!DeltaFits => (outcome' = "failed" <=> Numbers!IsWrong)
  BY <1>1
<1> QED
  BY <1>1, <1>2, <1>3 DEF NumberInv, Numbers!JudgesNumbers

LEMMA NumberSteps ==
  ASSUME Numbers!TypesAssumption, NumberInv, Numbers!Next
  PROVE  NumberInv'
<1> DEFINE type == call.type
           style == type.style
           en == Converted(type, call.expected)
           an == Converted(type, call.actual)
           e == Numbers!Argument(type, call.expected)
           a == Numbers!Argument(type, call.actual)
<1>1. en = Numbers!Number(call.expected) /\ an = Numbers!Number(call.actual)
  BY WordsOfNumbers DEF Converted, Numbers!Number
<1>2. ASSUME call.relation # "BITS"
      PROVE  /\ StandsFor(style, e, en) /\ StandsFor(style, a, an)
             /\ type \in NumberTypes /\ call.expected \in Int /\ call.actual \in Int
  BY <1>2, ArgumentStandsFor DEF NumberInv
<1>8. call.relation # "BITS" => (Numbers!IsWrong <=> Numbers!Fails(en, an))
  BY <1>1 DEF Numbers!IsWrong
<1> HIDE DEF e, a, en, an, type, style
<1>3. ASSUME call.relation # "BITS"
      PROVE  /\ en \in Int /\ an \in Int
             /\ e = a <=> en = an
             /\ Numbers!Ordered(style, e, a) <=> en < an
             /\ Numbers!Ordered(style, a, e) <=> an < en
             /\ \A delta \in Int :
                  Differs(style, delta, e, a) <=> en - an > delta \/ an - en > delta
  <2>1. StandsFor(style, e, en) /\ StandsFor(style, a, an)
    BY <1>2, <1>3
  <2>2. /\ e = a <=> en = an
        /\ IsSigned(style) => (e < a <=> en < an)
        /\ ~IsSigned(style) => (UNITY_UINT(e) < UNITY_UINT(a) <=> en < an)
    BY <2>1, 0 \in Int, ComparisonsAreOfNumbers, Zenon
  <2>3. /\ IsSigned(style) => (a < e <=> an < en)
        /\ ~IsSigned(style) => (UNITY_UINT(a) < UNITY_UINT(e) <=> an < en)
    BY <2>1, 0 \in Int, ComparisonsAreOfNumbers, Zenon
  <2>4. \A delta \in Int :
          Differs(style, delta, e, a) <=> en - an > delta \/ an - en > delta
    BY <2>1, ComparisonsAreOfNumbers
  <2>5. /\ Numbers!Ordered(style, e, a) <=>
             IF IsSigned(style) THEN e < a ELSE UNITY_UINT(e) < UNITY_UINT(a)
        /\ Numbers!Ordered(style, a, e) <=>
             IF IsSigned(style) THEN a < e ELSE UNITY_UINT(a) < UNITY_UINT(e)
    BY WordsOfNumbers DEF Numbers!Ordered
  <2> QED
    BY <2>1, <2>2, <2>3, <2>4, <2>5 DEF StandsFor
<1>4. CASE Numbers!UnityAssertEqualNumber
  <2> DEFINE failed == Numbers!EqualArgument(type, call.expected)
                         # Numbers!EqualArgument(type, call.actual)
  <2>1. PICK shown, other : Numbers!Conclude(failed, shown, other)
    BY <1>4 DEF Numbers!UnityAssertEqualNumber, type
  <2>2. call.relation = "EQUAL"
    BY <1>4 DEF Numbers!UnityAssertEqualNumber
  <2>3. failed <=> an # en
    BY <1>2, <2>2, EqualArguments DEF en, an
  <2>4. failed <=> Numbers!Fails(en, an)
    BY <2>2, <2>3 DEF Numbers!Fails
  <2> HIDE DEF failed
  <2> QED
    BY <1>8, <2>1, <2>2, <2>4, VerdictIsRight
<1>5. ASSUME NEW relation \in Numbers!Relations \ {"EQUAL"}, NEW compare,
             Numbers!UnityAssertGreaterOrLessOrEqualNumber(relation, compare),
             \/ relation = "NOT_EQUAL" /\ compare = {}
             \/ relation = "GREATER_THAN" /\ compare = {"GREATER_THAN"}
             \/ relation = "SMALLER_THAN" /\ compare = {"SMALLER_THAN"}
             \/ relation = "GREATER_OR_EQUAL" /\ compare = {"GREATER_THAN", "EQUAL_TO"}
             \/ relation = "SMALLER_OR_EQUAL" /\ compare = {"SMALLER_THAN", "EQUAL_TO"}
      PROVE  NumberInv'
  <2> DEFINE failed == \/ e = a /\ "EQUAL_TO" \notin compare
                       \/ Numbers!Ordered(style, e, a) /\ "SMALLER_THAN" \in compare
                       \/ Numbers!Ordered(style, a, e) /\ "GREATER_THAN" \in compare
  <2>1. PICK shown, other : Numbers!Conclude(failed, shown, other)
    BY <1>5, Zenon DEF Numbers!UnityAssertGreaterOrLessOrEqualNumber, type, style, e, a
  <2>2. call.relation = relation
    BY <1>5 DEF Numbers!UnityAssertGreaterOrLessOrEqualNumber
  <2>3. failed <=> Numbers!Fails(en, an)
    <3>1. relation \in {"NOT_EQUAL", "GREATER_THAN", "SMALLER_THAN", "GREATER_OR_EQUAL",
                        "SMALLER_OR_EQUAL"}
      BY DEF Numbers!Relations
    <3>2. /\ en \in Int /\ an \in Int
          /\ failed <=> \/ en = an /\ "EQUAL_TO" \notin compare
                        \/ en < an /\ "SMALLER_THAN" \in compare
                        \/ an < en /\ "GREATER_THAN" \in compare
      BY <1>3, <2>2, <3>1
    <3> HIDE DEF failed
    <3>3. CASE relation = "NOT_EQUAL"
      BY <1>5, <2>2, <3>2, <3>3 DEF Numbers!Fails
    <3>4. CASE relation = "GREATER_THAN"
      BY <1>5, <2>2, <3>2, <3>4 DEF Numbers!Fails
    <3>5. CASE relation = "SMALLER_THAN"
      BY <1>5, <2>2, <3>2, <3>5 DEF Numbers!Fails
    <3>6. CASE relation = "GREATER_OR_EQUAL"
      BY <1>5, <2>2, <3>2, <3>6 DEF Numbers!Fails
    <3>7. CASE relation = "SMALLER_OR_EQUAL"
      BY <1>5, <2>2, <3>2, <3>7 DEF Numbers!Fails
    <3> QED
      BY <3>1, <3>3, <3>4, <3>5, <3>6, <3>7
  <2> HIDE DEF failed
  <2> QED
    BY <1>8, <2>1, <2>2, <2>3, VerdictIsRight DEF Numbers!Relations
<1>6. CASE Numbers!UnityAssertNumbersWithin
  <2> DEFINE delta == Numbers!DeltaArgument(type, call.delta)
             failed == Differs(style, delta, e, a)
  <2>1. PICK shown, other : Numbers!Conclude(failed, shown, other)
    BY <1>6, WordsOfNumbers DEF Numbers!UnityAssertNumbersWithin, type, style, e, a
  <2>2. call.relation = "WITHIN"
    BY <1>6 DEF Numbers!UnityAssertNumbersWithin
  <2>3. ASSUME Numbers!DeltaFits PROVE delta = call.delta /\ call.delta \in Int
    <3>1. type.bytes \in {1, 2, 4, 8}
      BY <1>2, <2>2, TypeIsKnown
    <3>2. call.delta \in 0 .. Patterns(type.bytes) - 1 /\ Patterns(type.bytes) \in Nat
      BY <2>2, <2>3, <3>1, WordSizes DEF Numbers!DeltaFits, Patterns, type
    <3>3. Low(call.delta, type.bytes) = call.delta
      BY <3>1, <3>2, LowIsPattern
    <3> QED
      BY <3>2, <3>3, WordsOfNumbers DEF Numbers!DeltaArgument
  <2>4. Numbers!Fails(en, an) <=> Numbers!Max({an - en, en - an}) > call.delta
    BY <2>2 DEF Numbers!Fails
  <2>5. Numbers!Max({an - en, en - an}) = IF an - en >= en - an THEN an - en ELSE en - an
    BY <1>3, <2>2 DEF Numbers!Max
  <2>6. ASSUME Numbers!DeltaFits PROVE failed <=> Numbers!Fails(en, an)
    BY <1>3, <2>2, <2>3, <2>4, <2>5, <2>6
  <2> HIDE DEF failed
  <2> QED
    BY <1>8, <2>1, <2>2, <2>6, VerdictIsRight
<1>7. CASE Numbers!UnityAssertBits
  <2> DEFINE failed == Numbers!UnderMask(call.mask, call.expected)
                         # Numbers!UnderMask(call.mask, call.actual)
  <2>1. PICK shown, other : Numbers!Conclude(failed, shown, other)
    BY <1>7 DEF Numbers!UnityAssertBits
  <2>2. failed <=> Numbers!IsWrong
    BY <1>7 DEF Numbers!UnityAssertBits, Numbers!UnderMask, Numbers!IsWrong, Numbers!WrongBits
  <2> HIDE DEF failed
  <2> QED
    BY <2>1, <2>2, VerdictIsRight
<1> QED
  BY <1>4, <1>5, <1>6, <1>7
     DEF Numbers!Next, Numbers!TEST_ASSERT_NOT_EQUAL, Numbers!TEST_ASSERT_GREATER_THAN,
         Numbers!TEST_ASSERT_SMALLER_THAN, Numbers!TEST_ASSERT_GREATER_OR_EQUAL,
         Numbers!TEST_ASSERT_SMALLER_OR_EQUAL, Numbers!Relations

-----------------------------------------------------------------------------
(* Induction, by counting: a set that holds 0 and all successors has as     *)
(* many members up to any number as the interval.                           *)

LEMMA Induction ==
  ASSUME NEW T \in SUBSET Nat, 0 \in T, \A m \in T : m + 1 \in T
  PROVE  T = Nat
<1> SUFFICES ASSUME NEW x \in Nat, x \notin T PROVE FALSE
  OBVIOUS
<1> DEFINE A == T \cap (0 .. x)
           B == T \cap (1 .. x)
           f == [m \in A |-> m + 1]
<1>1. IsFiniteSet(0 .. x) /\ IsFiniteSet(1 .. x)
  BY FS_Interval
<1>2. IsFiniteSet(A) /\ IsFiniteSet(B)
  BY <1>1, FS_Intersection
<1>3. Cardinality(A) \in Nat /\ Cardinality(B) \in Nat
  BY <1>2, FS_CardinalityType
<1>4. 0 \notin B /\ A = B \cup {0}
  OBVIOUS
<1>5. Cardinality(A) = Cardinality(B) + 1
  BY <1>2, <1>4, FS_AddElement
<1>6. f \in Injection(A, B)
  <2>1. \A m \in A : m + 1 \in B
    OBVIOUS
  <2>2. \A l, m \in A : l + 1 = m + 1 => l = m
    OBVIOUS
  <2> HIDE DEF A, B
  <2> QED
    BY <2>1, <2>2 DEF Injection, IsInjective
<1>7. Cardinality(A) <= Cardinality(B)
  <2> HIDE DEF A, B, f
  <2> QED
    BY <1>2, <1>6, FS_Injection
<1> QED
  BY <1>3, <1>5, <1>7

LEMMA LeastElement ==
  ASSUME NEW Z \in SUBSET Nat, Z # {}
  PROVE  \E z \in Z : \A y \in Z : z <= y
<1> SUFFICES ASSUME \A z \in Z : \E y \in Z : y < z PROVE FALSE
  OBVIOUS
<1> DEFINE T == {m \in Nat : \A l \in 0 .. m : l \notin Z}
<1>1. 0 \in T
  OBVIOUS
<1>2. ASSUME NEW m \in T PROVE m + 1 \in T
  <2>1. \A l \in 0 .. m : l \notin Z
    OBVIOUS
  <2>2. m + 1 \notin Z
    BY <2>1
  <2> QED
    BY <2>1, <2>2
<1> HIDE DEF T
<1>3. T = Nat
  BY <1>1, <1>2, Induction DEF T
<1>4. PICK z \in Z : TRUE
  OBVIOUS
<1> QED
  BY <1>3, <1>4 DEF T

-----------------------------------------------------------------------------
(* What a failed assertion on strings shows.                                *)

\* The values of a char.
Char == -128 .. 127

\* F concatenates the codes one by one.
Concatenates(F, codes, num) ==
  F = [x \in 1 .. num |-> IF x = 1 THEN codes[x] ELSE F[x - 1] \o codes[x]]

LEMMA ConcatenationExists ==
  ASSUME NEW num \in Nat, NEW codes
  PROVE  \E F : Concatenates(F, codes, num)
<1> DEFINE T == {m \in Nat : \E F : Concatenates(F, codes, m)}
<1>1. 0 \in T
  <2>1. Concatenates([x \in 1 .. 0 |-> << >>], codes, 0)
    BY DEF Concatenates
  <2> QED
    BY <2>1
<1>2. ASSUME NEW m \in T PROVE m + 1 \in T
  <2>1. PICK F : Concatenates(F, codes, m)
    OBVIOUS
  <2> DEFINE G == [x \in 1 .. m + 1 |->
                     IF x = 1 THEN codes[x] ELSE F[x - 1] \o codes[x]]
  <2>2. m \in Nat
    OBVIOUS
  <2>3. \A x \in 1 .. m : F[x] = G[x]
    <3>1. \A x \in 1 .. m : F[x] = IF x = 1 THEN codes[x] ELSE F[x - 1] \o codes[x]
      BY <2>1, Zenon DEF Concatenates
    <3>2. \A x \in 1 .. m : x \in 1 .. m + 1
      BY <2>2
    <3> QED
      BY <3>1, <3>2, Zenon
  <2>4. \A x \in 1 .. m + 1 : x # 1 => x - 1 \in 1 .. m
    BY <2>2
  <2>5. G = [x \in 1 .. m + 1 |-> IF x = 1 THEN codes[x] ELSE G[x - 1] \o codes[x]]
    <3>1. \A x \in 1 .. m + 1 : x # 1 => F[x - 1] = G[x - 1]
      BY <2>3, <2>4
    <3> DEFINE g(x) == G[x - 1]
    <3>2. \A x \in 1 .. m + 1 : x # 1 => F[x - 1] = g(x)
      BY <3>1
    <3> HIDE DEF g
    <3>3. G = [x \in 1 .. m + 1 |-> IF x = 1 THEN codes[x] ELSE g(x) \o codes[x]]
      BY <3>2
    <3> QED
      BY <3>3 DEF g
  <2> HIDE DEF G
  <2>6. Concatenates(G, codes, m + 1)
    BY <2>5 DEF Concatenates
  <2> QED
    BY <2>2, <2>6
<1> HIDE DEF T
<1>3. T = Nat
  BY <1>1, <1>2, Induction DEF T
<1> QED
  BY <1>3 DEF T

\* G[x] is what is printed of the first x characters of s, up to num.
Prints(G, s, num) ==
  /\ G \in [0 .. num -> Seq(Int)]
  /\ G[0] = << >>
  /\ \A x \in 1 .. num : G[x] = G[x - 1] \o Texts!UnityPrintChar(s[x - 1])

LEMMA PrintsByCharacter ==
  ASSUME NEW s, NEW num \in Nat,
         \A x \in 1 .. num : Texts!UnityPrintChar(s[x - 1]) \in Seq(Int)
  PROVE  \E G : Prints(G, s, num) /\ Texts!PrintPrefix(s, num) = G[num]
<1> DEFINE codes == [x \in 1 .. num |-> Texts!UnityPrintChar(s[x - 1])]
<1>1. codes \in Seq(Seq(Int)) /\ Len(codes) = num
  BY SeqDef
<1>2. Texts!PrintPrefix(s, num) = Texts!FlattenSeq(codes)
  BY DEF Texts!PrintPrefix
<1>3. \A x \in 1 .. num : codes[x] \in Seq(Int) /\ codes[x] = Texts!UnityPrintChar(s[x - 1])
  OBVIOUS
<1> HIDE DEF codes
<1>4. CASE num = 0
  <2>1. codes = << >> /\ Texts!FlattenSeq(codes) = codes
    BY <1>1, <1>4, EmptySeq DEF Texts!FlattenSeq
  <2>2. << >> \in Seq(Int)
    BY EmptySeq
  <2>3. Prints([x \in 0 .. num |-> << >>], s, num)
    BY <1>4, <2>2 DEF Prints
  <2> QED
    BY <1>2, <1>4, <2>1, <2>3
<1>5. CASE num # 0
  <2>1. PICK F : Concatenates(F, codes, num) /\ Texts!FlattenSeq(codes) = F[num]
    <3>1. \E F : F = [x \in 1 .. Len(codes) |->
                        IF x = 1 THEN codes[x] ELSE F[x - 1] \o codes[x]]
      BY <1>1, ConcatenationExists DEF Concatenates
    <3>2. Len(codes) # 0
      BY <1>1, <1>5
    <3>3. \E F : /\ F = [x \in 1 .. Len(codes) |->
                           IF x = 1 THEN codes[x] ELSE F[x - 1] \o codes[x]]
                 /\ Texts!FlattenSeq(codes) = F[Len(codes)]
      BY <3>1, <3>2, Zenon DEF Texts!FlattenSeq
    <3> QED
      BY <1>1, <3>3 DEF Concatenates
  <2> DEFINE G == [x \in 0 .. num |-> IF x = 0 THEN << >> ELSE F[x]]
             T == {m \in Nat : m <= num => G[m] \in Seq(Int)}
  <2>2. G[0] = << >> /\ G[num] = F[num]
    BY <1>5
  <2>3. << >> \in Seq(Int)
    BY EmptySeq
  <2>4. ASSUME NEW x \in 1 .. num, G[x - 1] \in Seq(Int)
        PROVE  G[x] = G[x - 1] \o codes[x]
    <3>1. F[x] = IF x = 1 THEN codes[x] ELSE F[x - 1] \o codes[x]
      BY <2>1 DEF Concatenates
    <3>2. x = 1 => << >> \o codes[x] = codes[x]
      BY <1>3, ConcatEmptySeq
    <3>3. G[x] = F[x] /\ G[x - 1] = IF x = 1 THEN << >> ELSE F[x - 1]
      OBVIOUS
    <3> HIDE DEF G
    <3> QED
      BY <3>1, <3>2, <3>3
  <2>5. 0 \in T
    BY <2>2, <2>3
  <2>6. ASSUME NEW m \in T PROVE m + 1 \in T
    <3>1. CASE m + 1 <= num
      <4>1. m + 1 \in 1 .. num /\ m + 1 - 1 = m /\ G[m] \in Seq(Int)
        BY <3>1
      <4> DEFINE y == m + 1
      <4> HIDE DEF G, y
      <4>2. G[m + 1] = G[m] \o codes[m + 1]
        <5>1. y \in 1 .. num /\ y - 1 = m
          BY <4>1 DEF y
        <5>2. G[y] = G[m] \o codes[y]
          BY <2>4, <4>1, <5>1
        <5> QED
          BY <5>2 DEF y
      <4>3. G[m + 1] \in Seq(Int)
        BY <1>3, <4>1, <4>2, ConcatProperties
      <4> QED
        BY <4>3
    <3> QED
      BY <3>1
  <2>7. T = Nat
    <3> HIDE DEF T
    <3> QED
      BY <2>5, <2>6, Induction DEF T
  <2>8. \A x \in 0 .. num : G[x] \in Seq(Int)
    <3> HIDE DEF G
    <3>1. \A x \in Nat : x \in T
      BY <2>7
    <3>2. \A x \in 0 .. num : x \in Nat /\ x <= num
      OBVIOUS
    <3> QED
      BY <3>1, <3>2
  <2>9. Prints(G, s, num)
    <3>1. G \in [0 .. num -> Seq(Int)]
      BY <2>8
    <3>2. \A x \in 1 .. num : x - 1 \in 0 .. num
      OBVIOUS
    <3> HIDE DEF G, T
    <3> QED
      BY <1>3, <2>2, <2>4, <2>8, <3>1, <3>2 DEF Prints
  <2> HIDE DEF G
  <2> QED
    BY <1>2, <2>1, <2>2, <2>9
<1> QED
  BY <1>4, <1>5

\* What is printed first stays what is printed first.
LEMMA PrintedPrefix ==
  ASSUME NEW G, NEW s, NEW num \in Nat, Prints(G, s, num), NEW x \in 0 .. num,
         \A y \in 1 .. num : Texts!UnityPrintChar(s[y - 1]) \in Seq(Int)
  PROVE  \A y \in x .. num : /\ Len(G[x]) <= Len(G[y])
                             /\ \A q \in 1 .. Len(G[x]) : G[y][q] = G[x][q]
<1> DEFINE Good(y) == /\ Len(G[x]) <= Len(G[y])
                      /\ \A q \in 1 .. Len(G[x]) : G[y][q] = G[x][q]
           T == {m \in Nat : x + m <= num => Good(x + m)}
<1>1. \A y \in 0 .. num : G[y] \in Seq(Int) /\ Len(G[y]) \in Nat
  BY DEF Prints
<1>2. 0 \in T
  BY <1>1
<1>3. ASSUME NEW m \in T PROVE m + 1 \in T
  <2> SUFFICES ASSUME x + (m + 1) <= num PROVE Good(x + (m + 1))
    OBVIOUS
  <2> DEFINE y == x + m
             c == Texts!UnityPrintChar(s[y])
  <2>1. Good(y)
    OBVIOUS
  <2>2. y + 1 \in 1 .. num /\ y \in 0 .. num /\ y + 1 - 1 = y /\ x + (m + 1) = y + 1
    OBVIOUS
  <2> HIDE DEF y
  <2> DEFINE z == y + 1
  <2> HIDE DEF z
  <2>6. z \in 1 .. num /\ z - 1 = y
    BY <2>2 DEF z
  <2>3. G[z] = G[y] \o c /\ c \in Seq(Int) /\ G[y] \in Seq(Int) /\ G[x] \in Seq(Int)
    BY <1>1, <2>2, <2>6 DEF Prints
  <2> HIDE DEF c
  <2>4. /\ Len(G[z]) = Len(G[y]) + Len(c) /\ Len(c) \in Nat
        /\ \A q \in 1 .. Len(G[y]) : G[z][q] = G[y][q]
    BY <2>3, ConcatProperties, LenProperties
  <2>5. Good(z)
    BY <1>1, <2>1, <2>2, <2>4
  <2> QED
    BY <2>2, <2>5 DEF z
<1>4. T = Nat
  <2> HIDE DEF T
  <2> QED
    BY <1>2, <1>3, Induction DEF T
<1>5. ASSUME NEW y \in x .. num PROVE Good(y)
  <2>1. y - x \in T /\ x + (y - x) = y
    <3> HIDE DEF T
    <3> QED
      BY <1>4
  <2> HIDE DEF Good
  <2> QED
    BY <2>1
<1> QED
  BY <1>5

LEMMA SamePrints ==
  ASSUME NEW G, NEW H, NEW e, NEW a, NEW ne \in Nat, NEW na \in Nat,
         Prints(G, e, ne), Prints(H, a, na), NEW h \in Nat, h <= ne, h <= na,
         \A l \in 0 .. h - 1 : e[l] = a[l]
  PROVE  G[h] = H[h]
<1> DEFINE T == {m \in Nat : m <= h => G[m] = H[m]}
<1>1. 0 \in T
  BY DEF Prints
<1>2. ASSUME NEW m \in T PROVE m + 1 \in T
  <2> SUFFICES ASSUME m + 1 <= h PROVE G[m + 1] = H[m + 1]
    OBVIOUS
  <2> DEFINE z == m + 1
  <2>1. z \in 1 .. ne /\ z \in 1 .. na /\ z - 1 = m /\ e[m] = a[m] /\ G[m] = H[m]
    OBVIOUS
  <2> HIDE DEF z
  <2>2. /\ G[z] = G[m] \o Texts!UnityPrintChar(e[m])
        /\ H[z] = H[m] \o Texts!UnityPrintChar(a[m])
    BY <2>1 DEF Prints
  <2> QED
    BY <2>1, <2>2 DEF z
<1>3. T = Nat
  <2> HIDE DEF T
  <2> QED
    BY <1>1, <1>2, Induction DEF T
<1> QED
  BY <1>3

LEMMA NibblesDiffer ==
  /\ \A x \in 0 .. 15 : Texts!Nibble(x) \in Int
  /\ \A x, y \in 0 .. 15 : Texts!Nibble(x) = Texts!Nibble(y) => x = y
BY DEF Texts!Nibble

LEMMA CodeOf ==
  ASSUME NEW c \in Char
  PROVE  Texts!UnityPrintChar(c) =
           IF c \in 32 .. 126 THEN <<c>>
           ELSE IF c = 13 THEN <<92, 114>>
           ELSE IF c = 10 THEN <<92, 110>>
           ELSE <<92, 120, Texts!Nibble((c \div 16) % 16), Texts!Nibble(c % 16)>>
<1>1. Texts!UnityPrintNumberHex(c, 2) =
        <<Texts!Nibble((c \div 16) % 16), Texts!Nibble(c % 16)>>
  <2> DEFINE digit(x) == Texts!Nibble((c \div 16^(2 - x)) % 16)
  <2>1. 16^(2 - 1) = 16 /\ 16^(2 - 2) = 1 /\ c \div 1 = c
    BY DEF Char
  <2>2. digit(1) = Texts!Nibble((c \div 16) % 16) /\ digit(2) = Texts!Nibble(c % 16)
    BY <2>1
  <2>3. Texts!UnityPrintNumberHex(c, 2) = [x \in 1 .. 2 |-> digit(x)]
    BY DEF Texts!UnityPrintNumberHex
  <2> HIDE DEF digit
  <2>4. [x \in 1 .. 2 |-> digit(x)] = <<digit(1), digit(2)>>
    <3> DEFINE f == [x \in 1 .. 2 |-> digit(x)]
               g == <<digit(1), digit(2)>>
    <3>1. DOMAIN f = 1 .. 2 /\ DOMAIN g = 1 .. 2 /\ f[1] = g[1] /\ f[2] = g[2]
      OBVIOUS
    <3>2. f = [x \in 1 .. 2 |-> f[x]] /\ g = [x \in 1 .. 2 |-> g[x]]
      OBVIOUS
    <3>3. \A x \in 1 .. 2 : x = 1 \/ x = 2
      OBVIOUS
    <3> HIDE DEF f, g
    <3>4. \A x \in 1 .. 2 : f[x] = g[x]
      BY <3>1, <3>3
    <3>5. f = g
      BY <3>2, <3>4
    <3> QED
      BY <3>5 DEF f, g
  <2> QED
    BY <2>2, <2>3, <2>4
<1>2. CASE c \in 32 .. 126
  BY <1>2 DEF Texts!UnityPrintChar
<1>3. CASE c \notin 32 .. 126 /\ c = 13
  BY <1>3 DEF Texts!UnityPrintChar, Texts!Backslash
<1>4. CASE c \notin 32 .. 126 /\ c = 10
  BY <1>4 DEF Texts!UnityPrintChar, Texts!Backslash
<1>5. CASE c \notin 32 .. 126 /\ c # 13 /\ c # 10
  <2> DEFINE x == Texts!Nibble((c \div 16) % 16)
             y == Texts!Nibble(c % 16)
  <2>1. Texts!UnityPrintChar(c) = <<92, 120>> \o <<x, y>>
    BY <1>1, <1>5 DEF Texts!UnityPrintChar, Texts!Backslash
  <2>2. x \in Int /\ y \in Int
    <3>1. (c \div 16) % 16 \in 0 .. 15 /\ c % 16 \in 0 .. 15
      BY DEF Char
    <3> QED
      BY <3>1, NibblesDiffer
  <2> HIDE DEF x, y
  <2>3. <<92, 120>> \o <<x, y>> = <<92, 120, x, y>>
    <3> DEFINE s == <<92, 120>>
               t == <<x, y>>
               u == <<92, 120, x, y>>
    <3>1. /\ s \in Seq(Int) /\ t \in Seq(Int) /\ u \in Seq(Int)
          /\ Len(s) = 2 /\ Len(t) = 2 /\ Len(u) = 4
          /\ u[1] = s[1] /\ u[2] = s[2] /\ u[3] = t[1] /\ u[4] = t[2]
      BY <2>2
    <3> HIDE DEF s, t, u
    <3>2. /\ s \o t \in Seq(Int) /\ Len(s \o t) = Len(s) + Len(t)
          /\ \A m \in 1 .. Len(s) + Len(t) :
               (s \o t)[m] = IF m <= Len(s) THEN s[m] ELSE t[m - Len(s)]
      BY <3>1, ConcatProperties, Zenon
    <3>3. Len(s \o t) = 4 /\ \A m \in 1 .. 4 : (s \o t)[m] = u[m]
      <4>1. Len(s \o t) = 4 /\ \A m \in 1 .. 4 : (s \o t)[m] = IF m <= 2 THEN s[m] ELSE t[m - 2]
        BY <3>1, <3>2
      <4>2. /\ (s \o t)[1] = s[1] /\ (s \o t)[2] = s[2]
            /\ (s \o t)[3] = t[1] /\ (s \o t)[4] = t[2]
        BY <4>1
      <4>3. \A m \in 1 .. 4 : m = 1 \/ m = 2 \/ m = 3 \/ m = 4
        OBVIOUS
      <4> QED
        BY <3>1, <4>1, <4>2, <4>3
    <3>4. s \o t = u
      BY <3>1, <3>2, <3>3, SeqEqual
    <3> QED
      BY <3>4 DEF s, t, u
  <2> QED
    BY <1>5, <2>1, <2>3 DEF x, y
<1> QED
  BY <1>2, <1>3, <1>4, <1>5

LEMMA CodeIsText ==
  ASSUME NEW c \in Char
  PROVE  Texts!UnityPrintChar(c) \in Seq(Int) /\ Len(Texts!UnityPrintChar(c)) > 0
<1>1. (c \div 16) % 16 \in 0 .. 15 /\ c % 16 \in 0 .. 15
  BY DEF Char
<1>2. Texts!Nibble((c \div 16) % 16) \in Int /\ Texts!Nibble(c % 16) \in Int
  BY <1>1, NibblesDiffer
<1> DEFINE x == Texts!Nibble((c \div 16) % 16)
           y == Texts!Nibble(c % 16)
<1>3. Texts!UnityPrintChar(c) \in {<<c>>, <<92, 114>>, <<92, 110>>, <<92, 120, x, y>>}
  BY CodeOf
<1>4. c \in Int
  BY DEF Char
<1>5. x \in Int /\ y \in Int
  BY <1>2
<1> HIDE DEF x, y
<1>6. <<c>> \in Seq(Int) /\ Len(<<c>>) > 0
  BY <1>4
<1>7. <<92, 114>> \in Seq(Int) /\ Len(<<92, 114>>) > 0
  OBVIOUS
<1>8. <<92, 110>> \in Seq(Int) /\ Len(<<92, 110>>) > 0
  OBVIOUS
<1>9. <<92, 120, x, y>> \in Seq(Int) /\ Len(<<92, 120, x, y>>) > 0
  BY <1>5
<1> QED
  BY <1>3, <1>6, <1>7, <1>8, <1>9

\* Different characters differ in a place that both codes have.
LEMMA CodesDiffer ==
  ASSUME NEW c \in Char \ {92}, NEW d \in Char \ {92}, c # d
  PROVE  \E q \in 1 .. Len(Texts!UnityPrintChar(c)) :
           /\ q <= Len(Texts!UnityPrintChar(d))
           /\ Texts!UnityPrintChar(c)[q] # Texts!UnityPrintChar(d)[q]
<1> DEFINE C == Texts!UnityPrintChar(c)
           D == Texts!UnityPrintChar(d)
           High(x) == Texts!Nibble((x \div 16) % 16)
           Low4(x) == Texts!Nibble(x % 16)
           Kind(x) == IF x \in 32 .. 126 THEN 1 ELSE IF x = 13 THEN 2 ELSE IF x = 10 THEN 3 ELSE 4
<1>1. High(c) # High(d) \/ Low4(c) # Low4(d)
  <2>1. /\ (c \div 16) % 16 \in 0 .. 15 /\ c % 16 \in 0 .. 15
        /\ (d \div 16) % 16 \in 0 .. 15 /\ d % 16 \in 0 .. 15
        /\ (c \div 16) % 16 # (d \div 16) % 16 \/ c % 16 # d % 16
    BY DEF Char
  <2> QED
    BY <2>1, NibblesDiffer
<1> HIDE DEF High, Low4
<1>2. /\ C = IF c \in 32 .. 126 THEN <<c>> ELSE IF c = 13 THEN <<92, 114>>
             ELSE IF c = 10 THEN <<92, 110>> ELSE <<92, 120, High(c), Low4(c)>>
      /\ D = IF d \in 32 .. 126 THEN <<d>> ELSE IF d = 13 THEN <<92, 114>>
             ELSE IF d = 10 THEN <<92, 110>> ELSE <<92, 120, High(d), Low4(d)>>
  BY CodeOf DEF High, Low4
<1>3. c \in Int /\ d \in Int /\ c # 92 /\ d # 92
  BY DEF Char
<1> HIDE DEF C, D
<1>4. CASE c \in 32 .. 126 \/ d \in 32 .. 126
  <2>1. 1 <= Len(C) /\ 1 <= Len(D) /\ C[1] # D[1]
    BY <1>2, <1>3, <1>4
  <2>2. Len(C) \in Int
    BY <1>2
  <2> QED
    BY <2>1, <2>2 DEF C, D
<1>5. CASE c \notin 32 .. 126 /\ d \notin 32 .. 126 /\ (c \in {10, 13} \/ d \in {10, 13})
  <2>1. 2 <= Len(C) /\ 2 <= Len(D) /\ C[2] # D[2]
    BY <1>2, <1>3, <1>5
  <2>2. Len(C) \in Int
    BY <1>2
  <2> QED
    BY <2>1, <2>2 DEF C, D
<1>6. CASE c \notin 32 .. 126 /\ d \notin 32 .. 126 /\ c \notin {10, 13} /\ d \notin {10, 13}
  <2>1. C = <<92, 120, High(c), Low4(c)>> /\ D = <<92, 120, High(d), Low4(d)>>
    BY <1>2, <1>6
  <2>2. Len(C) = 4 /\ Len(D) = 4 /\ (C[3] # D[3] \/ C[4] # D[4])
    BY <1>1, <2>1
  <2> QED
    BY <2>2 DEF C, D
<1> QED
  BY <1>4, <1>5, <1>6

\* Two texts that are the same up to h and not longer, or differ there.
LEMMA PrintsDiffer ==
  ASSUME NEW e, NEW a, NEW ne \in Nat, NEW na \in Nat, NEW h \in Nat, h <= ne, h <= na,
         \A l \in 0 .. ne - 1 : e[l] \in Char,
         \A l \in 0 .. na - 1 : a[l] \in Char,
         \A l \in 0 .. h - 1 : e[l] = a[l],
         h < ne \/ h < na,
         h < ne /\ h < na => e[h] # a[h] /\ e[h] # 92 /\ a[h] # 92
  PROVE  /\ Texts!PrintPrefix(e, ne) \in Seq(Int) /\ Texts!PrintPrefix(a, na) \in Seq(Int)
         /\ Texts!PrintPrefix(e, ne) # Texts!PrintPrefix(a, na)
<1> DEFINE Code(c) == Texts!UnityPrintChar(c)
<1>1. /\ \A y \in 1 .. ne : Code(e[y - 1]) \in Seq(Int) /\ Len(Code(e[y - 1])) > 0
      /\ \A y \in 1 .. na : Code(a[y - 1]) \in Seq(Int) /\ Len(Code(a[y - 1])) > 0
  <2>1. /\ \A y \in 1 .. ne : y - 1 \in 0 .. ne - 1
        /\ \A y \in 1 .. na : y - 1 \in 0 .. na - 1
    OBVIOUS
  <2>2. /\ \A y \in 1 .. ne : e[y - 1] \in Char
        /\ \A y \in 1 .. na : a[y - 1] \in Char
    BY <2>1
  <2> HIDE DEF Char
  <2> QED
    BY <2>2, CodeIsText
<1>2. PICK G : Prints(G, e, ne) /\ Texts!PrintPrefix(e, ne) = G[ne]
  BY <1>1, PrintsByCharacter
<1>3. PICK H : Prints(H, a, na) /\ Texts!PrintPrefix(a, na) = H[na]
  BY <1>1, PrintsByCharacter
<1>4. G[h] = H[h]
  BY <1>2, <1>3, SamePrints
<1>5. /\ \A x \in 0 .. ne : G[x] \in Seq(Int) /\ Len(G[x]) \in Nat
      /\ \A x \in 0 .. na : H[x] \in Seq(Int) /\ Len(H[x]) \in Nat
  BY <1>2, <1>3, LenProperties DEF Prints
<1> DEFINE len == Len(G[h])
           z == h + 1
<1>6. ASSUME h < ne
      PROVE  /\ Len(G[ne]) >= len + Len(Code(e[h])) /\ Len(Code(e[h])) \in Nat \ {0}
             /\ \A q \in 1 .. Len(Code(e[h])) : G[ne][len + q] = Code(e[h])[q]
  <2>1. z \in 1 .. ne /\ z - 1 = h /\ z \in 0 .. ne
    BY <1>6
  <2> DEFINE c == Code(e[h])
  <2> HIDE DEF z, Code
  <2>2. c \in Seq(Int) /\ Len(c) > 0 /\ Len(c) \in Nat
    BY <1>1, <2>1, LenProperties
  <2>3. G[z] = G[h] \o c
    BY <1>2, <2>1 DEF Prints, Code
  <2> HIDE DEF c
  <2>4. G[h] \in Seq(Int) /\ len = Len(G[h]) /\ len \in Nat
    BY <1>5
  <2> HIDE DEF len
  <2>5. Len(G[z]) = len + Len(c) /\ \A q \in 1 .. Len(c) : G[z][len + q] = c[q]
    BY <2>2, <2>3, <2>4, ConcatProperties
  <2>6. Len(G[z]) <= Len(G[ne]) /\ \A q \in 1 .. Len(G[z]) : G[ne][q] = G[z][q]
    <3>1. \A y \in 1 .. ne : Texts!UnityPrintChar(e[y - 1]) \in Seq(Int)
      BY <1>1 DEF Code
    <3>2. ne \in z .. ne
      BY <2>1
    <3>3. \A y \in z .. ne : /\ Len(G[z]) <= Len(G[y])
                             /\ \A q \in 1 .. Len(G[z]) : G[y][q] = G[z][q]
      BY <1>2, <2>1, <3>1, PrintedPrefix
    <3> QED
      BY <3>2, <3>3, Zenon
  <2>7. \A q \in 1 .. Len(c) : len + q \in 1 .. Len(G[z])
    BY <2>2, <2>4, <2>5
  <2>8. Len(G[ne]) \in Nat /\ Len(G[z]) \in Nat
    BY <1>5, <2>1
  <2>9. Len(G[ne]) >= len + Len(c) /\ Len(c) \in Nat \ {0}
    BY <2>2, <2>4, <2>5, <2>6, <2>8
  <2>10. \A q \in 1 .. Len(c) : G[ne][len + q] = c[q]
    BY <2>5, <2>6, <2>7
  <2> QED
    BY <2>9, <2>10 DEF c
<1>7. ASSUME h < na
      PROVE  /\ Len(H[na]) >= len + Len(Code(a[h])) /\ Len(Code(a[h])) \in Nat \ {0}
             /\ \A q \in 1 .. Len(Code(a[h])) : H[na][len + q] = Code(a[h])[q]
  <2>1. z \in 1 .. na /\ z - 1 = h /\ z \in 0 .. na
    BY <1>7
  <2> DEFINE c == Code(a[h])
  <2> HIDE DEF z, Code
  <2>2. c \in Seq(Int) /\ Len(c) > 0 /\ Len(c) \in Nat
    BY <1>1, <2>1, LenProperties
  <2>3. H[z] = H[h] \o c
    BY <1>3, <2>1 DEF Prints, Code
  <2> HIDE DEF c
  <2>4. H[h] \in Seq(Int) /\ len = Len(H[h]) /\ len \in Nat
    BY <1>4, <1>5
  <2> HIDE DEF len
  <2>5. Len(H[z]) = len + Len(c) /\ \A q \in 1 .. Len(c) : H[z][len + q] = c[q]
    BY <2>2, <2>3, <2>4, ConcatProperties
  <2>6. Len(H[z]) <= Len(H[na]) /\ \A q \in 1 .. Len(H[z]) : H[na][q] = H[z][q]
    <3>1. \A y \in 1 .. na : Texts!UnityPrintChar(a[y - 1]) \in Seq(Int)
      BY <1>1 DEF Code
    <3>2. na \in z .. na
      BY <2>1
    <3>3. \A y \in z .. na : /\ Len(H[z]) <= Len(H[y])
                             /\ \A q \in 1 .. Len(H[z]) : H[y][q] = H[z][q]
      BY <1>3, <2>1, <3>1, PrintedPrefix
    <3> QED
      BY <3>2, <3>3, Zenon
  <2>7. \A q \in 1 .. Len(c) : len + q \in 1 .. Len(H[z])
    BY <2>2, <2>4, <2>5
  <2>8. Len(H[na]) \in Nat /\ Len(H[z]) \in Nat
    BY <1>5, <2>1
  <2>9. Len(H[na]) >= len + Len(c) /\ Len(c) \in Nat \ {0}
    BY <2>2, <2>4, <2>5, <2>6, <2>8
  <2>10. \A q \in 1 .. Len(c) : H[na][len + q] = c[q]
    BY <2>5, <2>6, <2>7
  <2> QED
    BY <2>9, <2>10 DEF c
<1>8. len \in Nat /\ Len(G[ne]) \in Nat /\ Len(H[na]) \in Nat
  BY <1>5
<1>9. CASE h < ne /\ h < na
  <2>1. PICK q \in 1 .. Len(Code(e[h])) :
          q <= Len(Code(a[h])) /\ Code(e[h])[q] # Code(a[h])[q]
    <3>1. e[h] \in Char \ {92} /\ a[h] \in Char \ {92} /\ e[h] # a[h]
      BY <1>9
    <3> HIDE DEF Char
    <3> QED
      BY <3>1, CodesDiffer
  <2>2. q \in 1 .. Len(Code(a[h]))
    BY <1>7, <1>9, <2>1
  <2> HIDE DEF Code, len
  <2>3. G[ne][len + q] # H[na][len + q]
    BY <1>6, <1>7, <1>9, <2>1, <2>2
  <2> QED
    BY <1>2, <1>3, <1>5, <2>3
<1>10. CASE h = ne
  <2>1. Len(G[ne]) = len /\ Len(H[na]) > len
    <3>1. h < na /\ G[h] = G[ne]
      BY <1>10
    <3>2. Len(H[na]) >= len + Len(Code(a[h])) /\ Len(Code(a[h])) \in Nat \ {0}
      BY <1>7, <3>1
    <3> DEFINE l == Len(Code(a[h]))
               m == Len(H[na])
    <3>3. m \in Nat /\ len \in Nat /\ l \in Nat \ {0} /\ m >= len + l
      BY <1>8, <3>2
    <3> HIDE DEF l, len
    <3>4. m > len
      BY <3>3
    <3> QED
      BY <3>1, <3>4 DEF len
  <2> QED
    BY <1>2, <1>3, <1>5, <2>1
<1>11. CASE h = na
  <2>1. Len(H[na]) = len /\ Len(G[ne]) > len
    <3>1. h < ne /\ G[h] = H[na]
      BY <1>4, <1>11
    <3>2. Len(G[ne]) >= len + Len(Code(e[h])) /\ Len(Code(e[h])) \in Nat \ {0}
      BY <1>6, <3>1
    <3> DEFINE l == Len(Code(e[h]))
               m == Len(G[ne])
    <3>3. m \in Nat /\ len \in Nat /\ l \in Nat \ {0} /\ m >= len + l
      BY <1>8, <3>2
    <3> HIDE DEF l, len
    <3>4. m > len
      BY <3>3
    <3> QED
      BY <3>1, <3>4 DEF len
  <2> QED
    BY <1>2, <1>3, <1>5, <2>1
<1> QED
  BY <1>9, <1>10, <1>11

LEMMA FirstZeroIsFirst ==
  ASSUME Texts!TextAssumption, NEW s \in TextBuffers, Texts!Terminated(s)
  PROVE  /\ Texts!FirstZero(s) \in DOMAIN s /\ s[Texts!FirstZero(s)] = 0
         /\ \A l \in 0 .. Texts!FirstZero(s) - 1 : s[l] # 0
<1>1. DOMAIN s \subseteq Nat /\ \A m \in DOMAIN s : 0 .. m \subseteq DOMAIN s
  BY DEF Texts!TextAssumption
<1> DEFINE Z == {z \in DOMAIN s : s[z] = 0}
<1>2. PICK z \in Z : \A y \in Z : z <= y
  BY <1>1, LeastElement DEF Texts!Terminated
<1>3. \A l \in 0 .. z - 1 : s[l] # 0
  <2>1. SUFFICES ASSUME NEW l \in 0 .. z - 1, s[l] = 0 PROVE FALSE
    OBVIOUS
  <2>2. l \in Z /\ l < z /\ z \in Nat
    BY <1>1, <2>1
  <2> QED
    BY <1>1, <1>2, <2>2
<1>4. \E y \in DOMAIN s : s[y] = 0 /\ \A l \in 0 .. y - 1 : s[l] # 0
  BY <1>2, <1>3
<1> QED
  BY <1>4, Zenon DEF Texts!FirstZero

\* num characters of s are printed, which has no end before h.
PrintedLength(s, num, h) ==
  /\ num \in Nat /\ h <= num /\ 0 .. num - 1 \subseteq DOMAIN s
  /\ h = num => s[h] = 0

LEMMA PrintsWhole ==
  ASSUME Texts!TextAssumption, NEW s \in TextBuffers, Texts!Terminated(s),
         NEW h \in Nat, \A l \in 0 .. h - 1 : s[l] # 0
  PROVE  \E num : PrintedLength(s, num, h) /\ Texts!UnityPrint(s) = Texts!PrintPrefix(s, num)
<1> DEFINE z == Texts!FirstZero(s)
<1>1. /\ z \in DOMAIN s /\ s[z] = 0 /\ DOMAIN s \subseteq Nat
      /\ \A m \in DOMAIN s : 0 .. m \subseteq DOMAIN s
  BY FirstZeroIsFirst DEF Texts!TextAssumption
<1>2. Texts!UnityPrint(s) = Texts!PrintPrefix(s, z)
  BY DEF Texts!UnityPrint
<1> HIDE DEF z
<1>3. z \in Nat /\ h <= z
  BY <1>1
<1>4. 0 .. z - 1 \subseteq DOMAIN s
  BY <1>1, <1>3
<1>5. PrintedLength(s, z, h)
  BY <1>1, <1>3, <1>4 DEF PrintedLength
<1> QED
  BY <1>2, <1>5

LEMMA PrintsLimited ==
  ASSUME Texts!TextAssumption, NEW s \in TextBuffers, NEW lim \in Nat,
         Texts!Terminated(s) \/ 0 .. lim - 1 \subseteq DOMAIN s,
         NEW h \in Nat, \A l \in 0 .. h - 1 : s[l] # 0
  PROVE  \E num \in Nat : /\ 0 .. num - 1 \subseteq DOMAIN s
                          /\ h < lim => PrintedLength(s, num, h)
                          /\ Texts!UnityPrintLen(s, lim) = Texts!PrintPrefix(s, num)
<1> DEFINE z == Texts!FirstZero(s)
<1>3. ASSUME NEW m \in Nat, Texts!PrintLenReads(s, lim) = 0 .. m
      PROVE  Texts!UnityPrintLen(s, lim) = Texts!PrintPrefix(s, m)
  <2>1. Texts!Max(0 .. m) = m
    BY DEF Texts!Max
  <2> QED
    BY <1>3, <2>1 DEF Texts!UnityPrintLen
<1>4. Texts!Terminated(s) => z \in Nat /\ s[z] = 0 /\ \A l \in 0 .. z - 1 : s[l] # 0
  BY FirstZeroIsFirst DEF Texts!TextAssumption
<1>1. CASE Texts!Terminated(s) /\ z < lim
  <2>1. Texts!UnityPrintLen(s, lim) = Texts!UnityPrint(s)
    <3> HIDE DEF z
    <3>1. Texts!PrintLenReads(s, lim) = 0 .. z
      BY <1>1, <1>4 DEF Texts!PrintLenReads
    <3> QED
      BY <1>1, <1>3, <1>4, <3>1 DEF Texts!UnityPrint, z
  <2> QED
    BY <1>1, <2>1, PrintsWhole DEF PrintedLength
<1>2. CASE ~(Texts!Terminated(s) /\ z < lim)
  <2>1. Texts!UnityPrintLen(s, lim) = Texts!PrintPrefix(s, lim)
    <3> HIDE DEF z
    <3>1. \A l \in 0 .. lim - 1 : s[l] # 0
      <4>1. CASE Texts!Terminated(s)
        BY <1>2, <1>4, <4>1
      <4>2. CASE ~Texts!Terminated(s)
        BY <4>2 DEF Texts!Terminated
      <4> QED
        BY <4>1, <4>2
    <3>2. Texts!PrintLenReads(s, lim) = 0 .. lim
      BY <3>1 DEF Texts!PrintLenReads
    <3> QED
      BY <1>3, <3>2
  <2>2. 0 .. lim - 1 \subseteq DOMAIN s
    <3>1. CASE Texts!Terminated(s)
      <4>1. z \in DOMAIN s /\ DOMAIN s \subseteq Nat /\ ~(z < lim) /\ 0 .. z \subseteq DOMAIN s
        BY <1>2, <3>1, FirstZeroIsFirst DEF Texts!TextAssumption
      <4> HIDE DEF z
      <4> QED
        BY <4>1
    <3> QED
      BY <3>1
  <2>3. h < lim => PrintedLength(s, lim, h)
    BY <2>2 DEF PrintedLength
  <2> QED
    BY <2>1, <2>2, <2>3
<1> QED
  BY <1>1, <1>2

LEMMA PrefixIsText ==
  ASSUME Texts!TextAssumption, NEW s \in TextBuffers, NEW num \in Nat,
         0 .. num - 1 \subseteq DOMAIN s
  PROVE  Texts!PrintPrefix(s, num) \in Seq(Int)
<1>1. \A x \in 1 .. num : s[x - 1] \in Char
  BY DEF Texts!TextAssumption, Char
<1>2. \A x \in 1 .. num : Texts!UnityPrintChar(s[x - 1]) \in Seq(Int)
  <2> HIDE DEF Char
  <2> QED
    BY <1>1, CodeIsText
<1>3. PICK G : Prints(G, s, num) /\ Texts!PrintPrefix(s, num) = G[num]
  BY <1>2, PrintsByCharacter
<1> QED
  BY <1>3 DEF Prints

LEMMA PrintedDiffer ==
  ASSUME Texts!TextAssumption, NEW e \in TextBuffers, NEW a \in TextBuffers,
         NEW h \in Nat, Agree(e, a, h), e[h] # a[h],
         \A l \in DOMAIN e : e[l] # 92, \A l \in DOMAIN a : a[l] # 92,
         NEW ne, NEW na, PrintedLength(e, ne, h), PrintedLength(a, na, h)
  PROVE  /\ Texts!PrintPrefix(e, ne) \in Seq(Int) /\ Texts!PrintPrefix(a, na) \in Seq(Int)
         /\ Texts!PrintPrefix(e, ne) # Texts!PrintPrefix(a, na)
<1>1. ne \in Nat /\ na \in Nat /\ h <= ne /\ h <= na
  BY DEF PrintedLength
<1>2. (\A l \in 0 .. ne - 1 : e[l] \in Char) /\ (\A l \in 0 .. na - 1 : a[l] \in Char)
  BY DEF PrintedLength, Texts!TextAssumption, Char
<1>3. \A l \in 0 .. h - 1 : e[l] = a[l]
  BY DEF Agree
<1>4. h < ne \/ h < na
  BY <1>1 DEF PrintedLength
<1>5. h < ne /\ h < na => e[h] # 92 /\ a[h] # 92
  BY <1>1 DEF PrintedLength
<1> HIDE DEF Char
<1> QED
  BY <1>1, <1>2, <1>3, <1>4, <1>5, PrintsDiffer

\* A text in quotes.
Quoted(P) == <<39>> \o P \o <<39>>

LEMMA QuotedDiffer ==
  ASSUME NEW P \in Seq(Int), NEW Q \in Seq(Int)
  PROVE  /\ P # Q => Quoted(P) # Quoted(Q)
         /\ Quoted(P) # Texts!UnityStrNull
<1> DEFINE q == <<39>>
<1>1. q \in Seq(Int) /\ Len(q) = 1 /\ q[1] = 39
  OBVIOUS
<1>2. Quoted(P) = (q \o P) \o q /\ Quoted(Q) = (q \o Q) \o q
  BY DEF Quoted
<1> HIDE DEF q
<1>3. q \o P \in Seq(Int) /\ q \o Q \in Seq(Int)
  BY <1>1, ConcatProperties, Zenon
<1>4. P # Q => Quoted(P) # Quoted(Q)
  <2>1. SUFFICES ASSUME Quoted(P) = Quoted(Q) PROVE P = Q
    OBVIOUS
  <2>2. q \o P = q \o Q
    BY <1>1, <1>2, <1>3, <2>1, ConcatSimplifications, Zenon
  <2> QED
    BY <1>1, <2>2, ConcatSimplifications, Zenon
<1>5. Quoted(P)[1] = 39
  <2>1. Len(P) \in Nat
    BY LenProperties
  <2>2. /\ Len(q \o P) = Len(q) + Len(P)
        /\ \A m \in 1 .. Len(q) + Len(P) : (q \o P)[m] = IF m <= Len(q) THEN q[m] ELSE P[m - Len(q)]
    BY <1>1, ConcatProperties, Zenon
  <2>3. Len(q \o P) = 1 + Len(P) /\ (q \o P)[1] = 39
    BY <1>1, <2>1, <2>2
  <2>4. \A m \in 1 .. Len(q \o P) + Len(q) :
          ((q \o P) \o q)[m] = IF m <= Len(q \o P) THEN (q \o P)[m] ELSE q[m - Len(q \o P)]
    BY <1>1, <1>3, ConcatProperties, Zenon
  <2>5. ((q \o P) \o q)[1] = (q \o P)[1]
    BY <1>1, <2>1, <2>3, <2>4
  <2> QED
    BY <1>2, <2>3, <2>5
<1>6. Quoted(P) # Texts!UnityStrNull
  <2>1. Texts!UnityStrNull[1] = 78
    BY DEF Texts!UnityStrNull
  <2> QED
    BY <1>5, <2>1
<1> QED
  BY <1>4, <1>6

\* What is printed between the quotes of a string.
Content(s) ==
  IF call.kind = "len" THEN Texts!UnityPrintLen(s, call.length) ELSE Texts!UnityPrint(s)

LEMMA ContentOf ==
  ASSUME Texts!TextAssumption, TextCall(call), NEW s \in TextArguments(call), s # NullPtr,
         NEW h \in Nat, \A l \in 0 .. h - 1 : s[l] # 0
  PROVE  /\ s \in TextBuffers
         /\ \E num \in Nat :
              /\ 0 .. num - 1 \subseteq DOMAIN s /\ Content(s) = Texts!PrintPrefix(s, num)
              /\ (call.kind = "len" => h < call.length) => PrintedLength(s, num, h)
<1>1. CASE call.kind = "len"
  <2> DEFINE lim == call.length
  <2>1. lim \in Nat /\ s \in Texts!StringsOfLength(lim) /\ Content(s) = Texts!UnityPrintLen(s, lim)
    BY <1>1 DEF TextCall, TextArguments, Content
  <2> HIDE DEF lim
  <2>2. s \in TextBuffers /\ (Texts!Terminated(s) \/ 0 .. lim - 1 \subseteq DOMAIN s)
    BY <2>1 DEF Texts!StringsOfLength
  <2>3. \E num \in Nat : /\ 0 .. num - 1 \subseteq DOMAIN s
                         /\ h < lim => PrintedLength(s, num, h)
                         /\ Texts!UnityPrintLen(s, lim) = Texts!PrintPrefix(s, num)
    BY <2>1, <2>2, PrintsLimited
  <2> QED
    BY <1>1, <2>1, <2>2, <2>3 DEF lim
<1>2. CASE call.kind # "len"
  <2>1. s \in Texts!Strings /\ Content(s) = Texts!UnityPrint(s)
    BY <1>2 DEF TextArguments, Content
  <2>2. s \in TextBuffers /\ Texts!Terminated(s)
    BY <2>1 DEF Texts!Strings
  <2>3. \E num : PrintedLength(s, num, h) /\ Texts!UnityPrint(s) = Texts!PrintPrefix(s, num)
    BY <2>2, PrintsWhole
  <2> QED
    BY <2>1, <2>2, <2>3 DEF PrintedLength
<1> QED
  BY <1>1, <1>2

\* A text as a failure shows it.
ShownText(s) == IF s = NullPtr THEN Texts!UnityStrNull ELSE Quoted(Content(s))

LEMMA ShownTextsDiffer ==
  ASSUME Texts!TextAssumption, TextCall(call),
         NEW e \in TextArguments(call), NEW a \in TextArguments(call),
         NullPtr \in {e, a} => e # a,
         \A s \in {e, a} \ {NullPtr} : \A l \in DOMAIN s : s[l] # 92,
         NEW h \in Nat,
         NullPtr \notin {e, a} =>
           Agree(e, a, h) /\ e[h] # a[h] /\ (call.kind = "len" => h < call.length)
  PROVE  ShownText(e) # ShownText(a)
<1>1. ASSUME NEW s \in TextArguments(call), s # NullPtr
      PROVE  Quoted(Content(s)) # Texts!UnityStrNull
  <2>1. PICK num \in Nat : 0 .. num - 1 \subseteq DOMAIN s /\ Content(s) = Texts!PrintPrefix(s, num)
    <3>1. \A l \in 0 .. 0 - 1 : s[l] # 0
      OBVIOUS
    <3> QED
      BY <1>1, <3>1, ContentOf
  <2>2. s \in TextBuffers
    <3>1. \A l \in 0 .. 0 - 1 : s[l] # 0
      OBVIOUS
    <3> QED
      BY <1>1, <3>1, ContentOf
  <2>3. Content(s) \in Seq(Int)
    BY <2>1, <2>2, PrefixIsText
  <2> QED
    BY <2>3, QuotedDiffer
<1>2. CASE NullPtr \in {e, a}
  BY <1>1, <1>2 DEF ShownText
<1>3. CASE NullPtr \notin {e, a}
  <2>1. /\ \A l \in 0 .. h - 1 : e[l] # 0
        /\ \A l \in 0 .. h - 1 : a[l] # 0
    BY <1>3 DEF Agree
  <2>2. /\ e \in TextBuffers
        /\ \E num \in Nat : PrintedLength(e, num, h) /\ Content(e) = Texts!PrintPrefix(e, num)
    BY <1>3, <2>1, ContentOf
  <2>3. /\ a \in TextBuffers
        /\ \E num \in Nat : PrintedLength(a, num, h) /\ Content(a) = Texts!PrintPrefix(a, num)
    BY <1>3, <2>1, ContentOf
  <2>4. PICK ne, na : /\ PrintedLength(e, ne, h) /\ Content(e) = Texts!PrintPrefix(e, ne)
                      /\ PrintedLength(a, na, h) /\ Content(a) = Texts!PrintPrefix(a, na)
    BY <2>2, <2>3
  <2>5. Content(e) \in Seq(Int) /\ Content(a) \in Seq(Int) /\ Content(e) # Content(a)
    BY <1>3, <2>2, <2>3, <2>4, PrintedDiffer
  <2> QED
    BY <1>3, <2>5, QuotedDiffer DEF ShownText
<1> QED
  BY <1>2, <1>3

LEMMA TextFailureShows ==
  ASSUME Texts!TextAssumption, TextInv, Texts!Next
  PROVE  Texts!FailureIsVisible'
<1> DEFINE Null == NullPtr \in {Texts!Expd, Texts!Act}
           Inside == call.kind = "len" => i < call.length
           Unequal == IF Null THEN Texts!Expd # Texts!Act
                      ELSE Inside /\ Texts!Expd[i] # Texts!Act[i]
           texts == IF call.kind = "len"
                    THEN Texts!UnityPrintExpectedAndActualStringsLen(Texts!Expd, Texts!Act, call.length)
                    ELSE Texts!UnityPrintExpectedAndActualStrings(Texts!Expd, Texts!Act)
<1> SUFFICES ASSUME report' # << >>,
                    (\A s \in {Texts!Expd, Texts!Act} \ {NullPtr} :
                       \A l \in DOMAIN s : s[l] # Texts!Backslash)'
             PROVE  report'[1] # report'[2]
  BY DEF Texts!FailureIsVisible
<1>1. TextCall(call) /\ (outcome # "failed" => report = << >>)
      /\ (outcome = "running" => TextLoop)
  BY DEF TextInv
<1>2. outcome = "running" /\ Unequal /\ UNCHANGED <<call, i, j>> /\ report' = texts
  <2> HIDE DEF texts
  <2>1. CASE Texts!UnityAssertEqualString
    BY <1>1, <2>1 DEF Texts!UnityAssertEqualString, Texts!Become, Texts!Turn, Texts!Fail, texts
  <2>2. CASE Texts!UnityAssertEqualStringLen
    BY <1>1, <2>2 DEF Texts!UnityAssertEqualStringLen, Texts!Become, Texts!Turn, Texts!Fail,
                Texts!WithinLength, texts
  <2>3. CASE Texts!UnityAssertEqualStringArray
    BY <1>1, <2>3 DEF Texts!UnityAssertEqualStringArray, Texts!Become, Texts!Turn, Texts!Fail,
                Texts!NextElement, texts
  <2> QED
    BY <2>1, <2>2, <2>3 DEF Texts!Next
<1>3. Texts!Expd' = Texts!Expd /\ Texts!Act' = Texts!Act
  BY <1>2 DEF Texts!Expd, Texts!Act
<1>4. texts[1] = ShownText(Texts!Expd) /\ texts[2] = ShownText(Texts!Act)
  BY DEF ShownText, Content, Quoted, Texts!Quote, Texts!UnityPrintExpectedAndActualStrings,
         Texts!UnityPrintExpectedAndActualStringsLen
<1> DEFINE e == Texts!Expd
           a == Texts!Act
<1>5. e \in TextArguments(call) /\ a \in TextArguments(call) /\ (NullPtr \in {e, a} => e # a)
  BY <1>1, <1>2, TextStrings
<1>6. \A s \in {e, a} \ {NullPtr} : \A l \in DOMAIN s : s[l] # 92
  BY <1>3 DEF Texts!Backslash
<1>7. i \in Nat
  BY <1>1, <1>2 DEF TextLoop
<1>8. NullPtr \notin {e, a} =>
        Agree(e, a, i) /\ e[i] # a[i] /\ (call.kind = "len" => i < call.length)
  BY <1>1, <1>2 DEF TextLoop
<1> HIDE DEF e, a
<1>9. ShownText(e) # ShownText(a)
  BY <1>1, <1>5, <1>6, <1>7, <1>8, ShownTextsDiffer
<1> QED
  BY <1>2, <1>4, <1>9 DEF e, a

-----------------------------------------------------------------------------
(* What a failed assertion on integers shows.                               *)

\* What is printed keeps the pattern that a number was read from.
LEMMA LowKeepsPattern ==
  ASSUME NEW w \in {1, 2, 4, 8}, NEW p \in 0 .. Patterns(w) - 1
  PROVE  Low(Signed(p, w), w) = p /\ Low(UNITY_INT(p), w) = p
<1>1. /\ Half(w) \in Nat \ {0} /\ Patterns(w) = 2 * Half(w)
      /\ Half(8) \in Nat \ {0} /\ Patterns(8) = 2 * Half(8) /\ Patterns(w) <= Patterns(8)
      /\ w # 8 => Patterns(w) <= Half(8)
  BY WordSizes
<1>2. ASSUME NEW v \in {1, 2, 4, 8}, NEW r \in 0 .. Patterns(v) - 1
      PROVE  Low(Signed(r, v), v) = r
  <2> DEFINE M == Patterns(v)
             x == Signed(r, v)
  <2>1. M \in Nat \ {0} /\ (x = r \/ x = r - M) /\ r \in 0 .. M - 1
    BY <1>2, SignedIsNumber, WordSizes
  <2>2. Low(x, v) = x % M
    BY DEF Low, Patterns
  <2> HIDE DEF M, x
  <2>3. x \in Int /\ (x = r => x \in 0 .. M - 1) /\ (x = r - M => x \in (-M) .. -1)
    BY <2>1
  <2>4. /\ x \in 0 .. M - 1 => x % M = x
        /\ x \in (-M) .. -1 => x % M = x + M
    BY <2>1, <2>3, ModuloNear
  <2> QED
    BY <2>1, <2>2, <2>3, <2>4 DEF x
<1>3. p \in 0 .. Patterns(8) - 1 /\ UNITY_INT(p) = Signed(p, 8)
  BY <1>1, CastsAreInverse DEF UNITY_INT
<1>4. CASE w = 8
  BY <1>2, <1>3, <1>4
<1>5. CASE w # 8
  <2>1. UNITY_INT(p) = p
    BY <1>1, <1>3, <1>5, SignedIsNumber
  <2> QED
    BY <1>1, <1>2, <2>1, LowIsPattern
<1> QED
  BY <1>4, <1>5

\* v is read from the pattern p of w bytes; a HEX in one way or the other.
ReadFrom(style, w, p, v) ==
  /\ IsSigned(style) => v = Signed(p, w)
  /\ style.range = "UINT" => v = UNITY_INT(p)
  /\ style.range = "HEX" => v \in {Signed(p, w), UNITY_INT(p)}

LEMMA ShownDiffer ==
  ASSUME NEW style \in UNITY_DISPLAY_STYLE_T, NEW w \in {1, 2, 4, 8},
         style.range \notin {"INT", "UINT"} => w = style.length,
         NEW p \in 0 .. Patterns(w) - 1, NEW q \in 0 .. Patterns(w) - 1, p # q,
         NEW x, NEW y, ReadFrom(style, w, p, x), ReadFrom(style, w, q, y)
  PROVE  Shown(style, x) # Shown(style, y)
<1>1. style.range \in {"INT", "UINT", "HEX", "CHAR"} /\ (style.range = "CHAR" => style.length = 1)
  BY DEF UNITY_DISPLAY_STYLE_T
<1>2. /\ Low(Signed(p, w), w) = p /\ Low(UNITY_INT(p), w) = p
      /\ Low(Signed(q, w), w) = q /\ Low(UNITY_INT(q), w) = q
  BY LowKeepsPattern
<1>3. CASE style.range = "INT"
  <2>1. x = Signed(p, w) /\ y = Signed(q, w) /\ Shown(style, x) = x /\ Shown(style, y) = y
    BY <1>3 DEF ReadFrom, IsSigned, Shown
  <2> QED
    BY <1>2, <2>1
<1>4. CASE style.range = "UINT"
  <2>1. /\ x = UNITY_INT(p) /\ y = UNITY_INT(q)
        /\ Shown(style, x) = UNITY_UINT(x) /\ Shown(style, y) = UNITY_UINT(y)
    BY <1>4 DEF ReadFrom, Shown
  <2>2. p \in 0 .. Patterns(8) - 1 /\ q \in 0 .. Patterns(8) - 1
    BY WordSizes
  <2>3. UNITY_UINT(UNITY_INT(p)) = p /\ UNITY_UINT(UNITY_INT(q)) = q
    BY <2>2, CastsAreInverse
  <2> QED
    BY <2>1, <2>3
<1>5. CASE style.range = "HEX"
  <2>1. Shown(style, x) = Low(x, w) /\ Shown(style, y) = Low(y, w)
    BY <1>5 DEF Shown
  <2>2. Low(x, w) = p /\ Low(y, w) = q
    BY <1>2, <1>5 DEF ReadFrom
  <2> QED
    BY <2>1, <2>2
<1>6. CASE style.range = "CHAR"
  <2>1. Shown(style, x) = Low(x, w) /\ Shown(style, y) = Low(y, w)
    BY <1>1, <1>6 DEF Shown
  <2>2. Low(x, w) = p /\ Low(y, w) = q
    BY <1>2, <1>6 DEF ReadFrom, IsSigned
  <2> QED
    BY <2>1, <2>2
<1> QED
  BY <1>1, <1>3, <1>4, <1>5, <1>6

LEMMA ArrayFailureShows ==
  ASSUME Arrays!ArrayAssumption, ArrayInv, Arrays!Next
  PROVE  Arrays!FailureIsVisible'
<1> SUFFICES ASSUME report' # Arrays!NoReport
             PROVE  Arrays!Shown(call'.style, report'.expected)
                      # Arrays!Shown(call'.style, report'.actual)
  BY DEF Arrays!FailureIsVisible, Arrays!NoReport
<1> DEFINE m == call.num_elements - elements + 1
           l == IF call.to_array THEN m ELSE 1
           style == call.style
           e == Arrays!Load(style, memory.e[l])
           a == Arrays!Load(style, memory.a[m])
<1>1. \E different : Arrays!Compare(different)
  <2>1. ~Arrays!Enter /\ ~Arrays!Finish
    BY DEF ArrayInv, Arrays!Enter, Arrays!Finish
  <2> QED
    BY <2>1, Zenon DEF Arrays!Next, Arrays!UnityAssertEqualIntArray,
                       Arrays!UnityAssertNumbersArrayWithin
<1>2. /\ outcome = "running" /\ elements > 0 /\ elements' = elements - 1
      /\ call' = call /\ memory' = memory
      /\ report' = Arrays!Report(elements', Arrays!ExpectedElement, Arrays!ActualElement)
  BY <1>1 DEF Arrays!Compare, ArrayInv
<1>3. /\ ArrayCall /\ ArrayLoop /\ Arrays!Wrong' = Arrays!Wrong /\ call.num_elements \in Nat
  BY <1>2, ArrayFixed DEF ArrayInv, ArrayCall
<1>4. /\ m \in 1 .. call.num_elements /\ elements \in Nat
      /\ expected = [buffer |-> "e", at |-> l] /\ actual = [buffer |-> "a", at |-> m]
  BY <1>2, <1>3 DEF ArrayLoop
<1>5. Arrays!ExpectedElement = e /\ Arrays!ActualElement = a
  BY <1>4 DEF Arrays!ExpectedElement, Arrays!ActualElement, Arrays!At
<1> HIDE DEF e, a
<1>6. report'.element + 1 = m /\ report'.expected = e /\ report'.actual = a
  BY <1>2, <1>3, <1>4, <1>5 DEF Arrays!Report
<1>7. m \in Arrays!Wrong
  <2>1. Arrays!ComparesNumbers'
    BY ArraySteps DEF ArrayInv
  <2> QED
    BY <1>3, <1>6, <2>1 DEF Arrays!ComparesNumbers, Arrays!NoReport
<1>8. e # a
  <2> DEFINE en == Arrays!ExpectedValue(m)
             an == Arrays!ActualValue(m)
  <2>1. StandsFor(style, e, en) /\ StandsFor(style, a, an)
    BY <1>3, <1>4, ElementsStandFor DEF e, a
  <2>2. en - an > call.delta \/ an - en > call.delta
    BY <1>3, <1>4, <1>7, WrongElements
  <2> HIDE DEF en, an, m, style
  <2>3. /\ e = a <=> en = an
        /\ Differs(style, call.delta, e, a) <=> en - an > call.delta \/ an - en > call.delta
    BY <1>3, <2>1, ComparisonsAreOfNumbers DEF ArrayCall
  <2>4. en \in Int /\ an \in Int /\ call.delta \in Nat
    BY <1>3, <2>1 DEF StandsFor, ArrayCall
  <2> QED
    BY <2>2, <2>3, <2>4
<1> DEFINE p == memory.e[l]
           q == memory.a[m]
           w == style.length
<1>9. /\ style \in UNITY_DISPLAY_STYLE_T /\ w \in {1, 2, 4, 8}
      /\ p \in 0 .. Patterns(w) - 1 /\ q \in 0 .. Patterns(w) - 1
  BY <1>3, <1>4, StyleIsKnown DEF ArrayCall
<1>10. p # q
  BY <1>8 DEF e, a
<1> HIDE DEF p, q, w, style, m, l
<1>11. ReadFrom(style, w, p, e) /\ ReadFrom(style, w, q, a)
  BY WordsOfArrays DEF ReadFrom, IsSigned, Arrays!Load, e, a, p, q, w
<1>12. Shown(style, e) # Shown(style, a)
  BY <1>9, <1>10, <1>11, ShownDiffer DEF w
<1>13. \A v : Arrays!Shown(style, v) = Shown(style, v)
  BY WordsOfArrays DEF Arrays!Shown, Shown
<1> QED
  BY <1>2, <1>6, <1>12, <1>13 DEF style

LEMMA PairCounts ==
  ASSUME NEW x, NEW y
  PROVE  Cardinality({x, y}) = 2 <=> x # y
<1>1. IsFiniteSet({y}) /\ Cardinality({y}) = 1
  BY FS_Singleton
<1>2. CASE x = y
  <2>1. {x, y} = {y}
    BY <1>2
  <2> QED
    BY <1>1, <1>2, <2>1
<1>3. CASE x # y
  <2>1. {x, y} = {y} \cup {x} /\ x \notin {y}
    BY <1>3
  <2>2. Cardinality({y} \cup {x}) = Cardinality({y}) + 1
    BY <1>1, <2>1, FS_AddElement
  <2> QED
    BY <1>1, <1>3, <2>1, <2>2
<1> QED
  BY <1>2, <1>3

LEMMA NumbersShown ==
  ASSUME Numbers!TypesAssumption, NEW type \in NumberTypes, NEW v \in Int, NEW u \in Int,
         Low(v, type.bytes) # Low(u, type.bytes), NEW x, NEW y,
         ReadFrom(type.style, type.bytes, Low(v, type.bytes), x),
         ReadFrom(type.style, type.bytes, Low(u, type.bytes), y)
  PROVE  Cardinality({Numbers!Shown(type.style, x), Numbers!Shown(type.style, y)}) = 2
<1> DEFINE style == type.style
           w == type.bytes
           p == Low(v, w)
           q == Low(u, w)
<1>1. style \in UNITY_DISPLAY_STYLE_T /\ w \in {1, 2, 4, 8}
  BY TypeIsKnown
<1>2. style.range \notin {"INT", "UINT"} => w = style.length
  BY DEF Numbers!TypesAssumption
<1>3. p \in 0 .. Patterns(w) - 1 /\ q \in 0 .. Patterns(w) - 1
  BY <1>1, LowIsPattern
<1>4. p # q /\ ReadFrom(style, w, p, x) /\ ReadFrom(style, w, q, y)
  OBVIOUS
<1> HIDE DEF p, q, w, style
<1>5. Shown(style, x) # Shown(style, y)
  BY <1>1, <1>2, <1>3, <1>4, ShownDiffer
<1>6. \A z : Numbers!Shown(style, z) = Shown(style, z)
  BY WordsOfNumbers DEF Numbers!Shown, Shown
<1> QED
  BY <1>5, <1>6, PairCounts DEF style

LEMMA MasksShown ==
  ASSUME NEW mask, NEW v, NEW u
  PROVE  Numbers!UnityPrintMask(mask, v) # Numbers!UnityPrintMask(mask, u) <=>
           \E b \in Numbers!Bits(mask) : /\ b < Numbers!UNITY_INT_WIDTH
                                         /\ (b \in Numbers!Bits(v)) # (b \in Numbers!Bits(u))
<1> DEFINE D == 0 .. Numbers!UNITY_INT_WIDTH - 1
           M == Numbers!Bits(mask)
           V == Numbers!Bits(v)
           U == Numbers!Bits(u)
           f == Numbers!UnityPrintMask(mask, v)
           g == Numbers!UnityPrintMask(mask, u)
<1>1. Numbers!UNITY_INT_WIDTH \in Int
  BY WordAssumption DEF Numbers!UNITY_INT_WIDTH
<1>2. \A b \in M : b < Numbers!UNITY_INT_WIDTH <=> b \in D
  BY <1>1 DEF Numbers!Bits
<1>3. /\ f = [b \in D |-> f[b]] /\ g = [b \in D |-> g[b]]
      /\ \A b \in D : /\ f[b] = IF b \notin M THEN "X" ELSE IF b \in V THEN "1" ELSE "0"
                      /\ g[b] = IF b \notin M THEN "X" ELSE IF b \in U THEN "1" ELSE "0"
  BY DEF Numbers!UnityPrintMask
<1> HIDE DEF D, M, V, U, f, g
<1>4. f # g <=> \E b \in D : f[b] # g[b]
  BY <1>3
<1>5. \A b \in D : f[b] # g[b] <=> b \in M /\ (b \in V) # (b \in U)
  BY <1>3
<1>6. f # g <=> \E b \in M : b < Numbers!UNITY_INT_WIDTH /\ (b \in V) # (b \in U)
  BY <1>2, <1>4, <1>5
<1> QED
  BY <1>6 DEF M, V, U, f, g

LEMMA NumberFailureShows ==
  ASSUME Numbers!TypesAssumption, NumberInv, Numbers!Next
  PROVE  Numbers!FailureIsVisible'
<1> DEFINE type == call.type
           style == type.style
           w == type.bytes
           p == Low(call.expected, w)
           q == Low(call.actual, w)
<1>1. call' = call
  BY DEF Numbers!Next, Numbers!UnityAssertEqualNumber, Numbers!UnityAssertNumbersWithin,
         Numbers!UnityAssertBits, Numbers!TEST_ASSERT_NOT_EQUAL,
         Numbers!TEST_ASSERT_GREATER_THAN, Numbers!TEST_ASSERT_SMALLER_THAN,
         Numbers!TEST_ASSERT_GREATER_OR_EQUAL, Numbers!TEST_ASSERT_SMALLER_OR_EQUAL,
         Numbers!UnityAssertGreaterOrLessOrEqualNumber, Numbers!Conclude
<1>2. ASSUME call.relation # "BITS"
      PROVE  /\ type \in NumberTypes /\ call.expected \in Int /\ call.actual \in Int
             /\ type.style.range \in {"INT", "UINT", "HEX", "CHAR"}
  BY <1>2, TypeIsKnown DEF NumberInv
<1>3. ASSUME outcome' = "failed", call.relation = "EQUAL"
      PROVE  Cardinality(report') = 2
  <2> DEFINE e == Numbers!EqualArgument(type, call.expected)
             a == Numbers!EqualArgument(type, call.actual)
  <2>1. Numbers!UnityAssertEqualNumber
    BY <1>3 DEF Numbers!Next, Numbers!UnityAssertNumbersWithin,
         Numbers!UnityAssertBits, Numbers!TEST_ASSERT_NOT_EQUAL,
         Numbers!TEST_ASSERT_GREATER_THAN, Numbers!TEST_ASSERT_SMALLER_THAN,
         Numbers!TEST_ASSERT_GREATER_OR_EQUAL, Numbers!TEST_ASSERT_SMALLER_OR_EQUAL,
         Numbers!UnityAssertGreaterOrLessOrEqualNumber
  <2>2. Numbers!Conclude(e # a, Numbers!Shown(style, e), Numbers!Shown(style, a))
    BY <2>1, Zenon DEF Numbers!UnityAssertEqualNumber
  <2> HIDE DEF e, a
  <2>3. e # a /\ report' = {Numbers!Shown(style, e), Numbers!Shown(style, a)}
    BY <1>3, <2>2 DEF Numbers!Conclude
  <2>4. /\ e = IF style.range = "UINT" THEN UNITY_INT(p) ELSE Signed(p, w)
        /\ a = IF style.range = "UINT" THEN UNITY_INT(q) ELSE Signed(q, w)
    BY WordsOfNumbers DEF Numbers!EqualArgument, e, a
  <2> HIDE DEF p, q
  <2>5. p # q /\ ReadFrom(style, w, p, e) /\ ReadFrom(style, w, q, a)
    BY <2>3, <2>4 DEF ReadFrom, IsSigned
  <2>6. type \in NumberTypes /\ call.expected \in Int /\ call.actual \in Int
    BY <1>2, <1>3
  <2> HIDE DEF type
  <2> QED
    BY <2>3, <2>5, <2>6, NumbersShown DEF p, q, w, style
<1>4. ASSUME outcome' = "failed", call.relation = "WITHIN", Numbers!DeltaFits'
      PROVE  Cardinality(report') = 2
  <2> DEFINE e == Numbers!Argument(type, call.expected)
             a == Numbers!Argument(type, call.actual)
             en == Converted(type, call.expected)
             an == Converted(type, call.actual)
  <2>1. Numbers!UnityAssertNumbersWithin
    BY <1>4 DEF Numbers!Next, Numbers!UnityAssertEqualNumber,
         Numbers!UnityAssertBits, Numbers!TEST_ASSERT_NOT_EQUAL,
         Numbers!TEST_ASSERT_GREATER_THAN, Numbers!TEST_ASSERT_SMALLER_THAN,
         Numbers!TEST_ASSERT_GREATER_OR_EQUAL, Numbers!TEST_ASSERT_SMALLER_OR_EQUAL,
         Numbers!UnityAssertGreaterOrLessOrEqualNumber
  <2>2. \E failed : Numbers!Conclude(failed, Numbers!Shown(style, e), Numbers!Shown(style, a))
    BY <2>1, Zenon DEF Numbers!UnityAssertNumbersWithin
  <2> HIDE DEF e, a
  <2>3. report' = {Numbers!Shown(style, e), Numbers!Shown(style, a)}
    BY <1>4, <2>2 DEF Numbers!Conclude
  <2>4. en # an
    <3>1. Numbers!JudgesNumbers'
      BY NumberSteps DEF NumberInv
    <3>2. Numbers!Fails(Numbers!Number(call.expected), Numbers!Number(call.actual))'
      BY <1>1, <1>4, <3>1 DEF Numbers!JudgesNumbers, Numbers!IsWrong
    <3>3. /\ Numbers!Number(call.expected)' = en /\ Numbers!Number(call.actual)' = an
      BY <1>1, WordsOfNumbers DEF Converted, Numbers!Number
    <3>4. Numbers!Max({an - en, en - an}) > call.delta
      BY <1>1, <1>4, <3>2, <3>3 DEF Numbers!Fails
    <3>5. call.delta \in Nat
      BY <1>1, <1>4 DEF Numbers!DeltaFits
    <3>6. en \in Int /\ an \in Int
      BY <1>2, <1>4, ArgumentStandsFor DEF StandsFor
    <3> HIDE DEF en, an
    <3>7. Numbers!Max({an - en, en - an}) = IF an - en >= en - an THEN an - en ELSE en - an
      BY <3>6 DEF Numbers!Max
    <3> QED
      BY <3>4, <3>5, <3>6, <3>7
  <2>5. /\ en = IF IsSigned(style) THEN Signed(p, w) ELSE p
        /\ an = IF IsSigned(style) THEN Signed(q, w) ELSE q
    BY <1>2, <1>4, ConvertedIsRead
  <2>6. /\ e = IF IsSigned(style) THEN Signed(p, w) ELSE UNITY_INT(p)
        /\ a = IF IsSigned(style) THEN Signed(q, w) ELSE UNITY_INT(q)
    BY WordsOfNumbers DEF Numbers!Argument, e, a
  <2> HIDE DEF p, q, en, an
  <2>7. p # q
    BY <2>4, <2>5
  <2>8. ReadFrom(style, w, p, e) /\ ReadFrom(style, w, q, a)
    BY <2>6 DEF ReadFrom, IsSigned
  <2>9. type \in NumberTypes /\ call.expected \in Int /\ call.actual \in Int
    BY <1>2, <1>4
  <2> HIDE DEF type
  <2> QED
    BY <2>3, <2>7, <2>8, <2>9, NumbersShown DEF p, q, w, style
<1>5. ASSUME outcome' = "failed", call.relation = "BITS"
      PROVE  Cardinality(report') = 2 <=>
               \E b \in Numbers!Bits(call.mask) :
                 /\ b < Numbers!UNITY_INT_WIDTH
                 /\ (b \in Numbers!Bits(call.expected)) # (b \in Numbers!Bits(call.actual))
  <2>1. Numbers!UnityAssertBits
    BY <1>5 DEF Numbers!Next, Numbers!UnityAssertEqualNumber,
         Numbers!UnityAssertNumbersWithin, Numbers!TEST_ASSERT_NOT_EQUAL,
         Numbers!TEST_ASSERT_GREATER_THAN, Numbers!TEST_ASSERT_SMALLER_THAN,
         Numbers!TEST_ASSERT_GREATER_OR_EQUAL, Numbers!TEST_ASSERT_SMALLER_OR_EQUAL,
         Numbers!UnityAssertGreaterOrLessOrEqualNumber
  <2>2. report' = {Numbers!UnityPrintMask(call.mask, call.expected),
                   Numbers!UnityPrintMask(call.mask, call.actual)}
    BY <1>5, <2>1 DEF Numbers!UnityAssertBits, Numbers!Conclude
  <2>3. Cardinality(report') = 2 <=>
          Numbers!UnityPrintMask(call.mask, call.expected)
            # Numbers!UnityPrintMask(call.mask, call.actual)
    BY <2>2, PairCounts
  <2> QED
    BY <2>3, MasksShown
<1>6. (call.relation \in {"EQUAL", "WITHIN"} /\ Numbers!DeltaFits /\ outcome = "failed" =>
         Cardinality(report) = 2)'
  BY <1>1, <1>3, <1>4
<1>7. (call.relation = "BITS" /\ outcome = "failed" =>
         (Cardinality(report) = 2 <=>
            \E b \in Numbers!Bits(call.mask) :
              /\ b < Numbers!UNITY_INT_WIDTH
              /\ (b \in Numbers!Bits(call.expected)) # (b \in Numbers!Bits(call.actual))))'
  BY <1>1, <1>5
<1>8. \A S : Numbers!Cardinality(S) = Cardinality(S)
  BY Zenon DEF Numbers!Cardinality, Cardinality
<1> QED
  BY <1>6, <1>7, <1>8 DEF Numbers!FailureIsVisible

-----------------------------------------------------------------------------
(* One call of any part.                                                    *)

ChecksInv ==
  /\ part = "arrays"  => ArrayInv
  /\ part = "numbers" => NumberInv
  /\ part = "text"    => TextInv
  /\ part = "floats"  => FloatInv
  /\ part = "memory"  => MemoryInv

LEMMA ChecksStart == ChecksInit => ChecksInv
<1> SUFFICES ASSUME ChecksInit PROVE ChecksInv
  OBVIOUS
<1> USE ChecksAssumption
<1>1. CASE part = "arrays" /\ Arrays!Init
  BY <1>1, ArrayStarts DEF ChecksInv
<1>2. CASE part = "numbers" /\ Numbers!Init
  BY <1>2, NumberStarts DEF ChecksInv
<1>3. CASE part = "text" /\ Texts!Init
  BY <1>3, TextStarts DEF ChecksInv
<1>4. CASE part = "floats" /\ Floats!Init
  BY <1>4, FloatStarts DEF ChecksInv
<1>5. CASE part = "memory" /\ Memory!Init
  BY <1>5, MemoryStarts DEF ChecksInv
<1>6. CASE part \in {"digits", "fraction"}
  BY <1>6 DEF ChecksInv
<1> QED
  BY <1>1, <1>2, <1>3, <1>4, <1>5, <1>6 DEF ChecksInit

LEMMA ChecksSteps == ChecksInv /\ [ChecksNext]_checksVars => ChecksInv'
<1> SUFFICES ASSUME ChecksInv, [ChecksNext]_checksVars PROVE ChecksInv'
  OBVIOUS
<1> USE ChecksAssumption
<1>1. part' = part
  BY DEF ChecksNext, checksVars
<1>2. CASE part = "arrays"
  <2>1. Arrays!Next \/ UNCHANGED Arrays!vars
    BY <1>2 DEF ChecksNext, checksVars, assertions, pointers, Arrays!vars
  <2> QED
    BY <1>1, <1>2, <2>1, ArraySteps, ArrayStutters DEF ChecksInv
<1>3. CASE part = "numbers"
  <2>1. Numbers!Next \/ UNCHANGED Numbers!vars
    BY <1>3 DEF ChecksNext, checksVars, assertions, Numbers!vars
  <2> QED
    BY <1>1, <1>3, <2>1, NumberSteps, NumberStutters DEF ChecksInv
<1>4. CASE part = "text"
  <2>1. Texts!Next \/ UNCHANGED Texts!vars
    BY <1>4 DEF ChecksNext, checksVars, assertions, indices, Texts!vars
  <2> QED
    BY <1>1, <1>4, <2>1, TextSteps, TextStutters DEF ChecksInv
<1>5. CASE part = "floats"
  <2>1. Floats!Next \/ UNCHANGED Floats!vars
    BY <1>5 DEF ChecksNext, checksVars, assertions, Floats!vars
  <2> QED
    BY <1>1, <1>5, <2>1, FloatSteps, FloatStutters DEF ChecksInv
<1>6. CASE part = "memory"
  <2>1. Memory!Next \/ UNCHANGED Memory!vars
    BY <1>6 DEF ChecksNext, checksVars, assertions, blocks, Memory!vars
  <2> QED
    BY <1>1, <1>6, <2>1, MemorySteps, MemoryStutters DEF ChecksInv
<1>7. CASE part \notin {"arrays", "numbers", "text", "floats", "memory"}
  BY <1>1, <1>7 DEF ChecksInv
<1> QED
  BY <1>2, <1>3, <1>4, <1>5, <1>6, <1>7

LEMMA ChecksInductive == ChecksSpec => []ChecksInv
BY ChecksStart, ChecksSteps, PTL DEF ChecksSpec

(***************************************************************************)
(* For every width of a byte, and whatever is compared: an assertion on    *)
(* integers, bits, strings, memory or arrays of them fails exactly when    *)
(* there is nothing to compare or the numbers, bits, texts or blocks it is *)
(* given do not stand in the relation its name says, and names the first   *)
(* pair that does not.                                                     *)
(***************************************************************************)
THEOREM AssertionsJudge == ChecksSpec => []AssertsAsStated
<1>1. ChecksInv => AssertsAsStated
  BY DEF ChecksInv, ArrayInv, NumberInv, TextInv, MemoryInv, AssertsAsStated
<1> QED
  BY <1>1, ChecksInductive, PTL

(***************************************************************************)
(* For every largest float and every precision: the assertions on floats   *)
(* and on arrays of them judge as the relation on real numbers, infinities *)
(* and NaN does, though the differences they take overflow.                *)
(***************************************************************************)
THEOREM FloatAssertionsJudge == ChecksSpec => []FloatsAsStated
<1>1. ChecksInv => FloatsAsStated
  BY DEF ChecksInv, FloatInv, FloatsAsStated
<1> QED
  BY <1>1, ChecksInductive, PTL

(***************************************************************************)
(* For buffers of every size: no comparison reads in front of or behind    *)
(* what it was given, and printing a string of a given length reads one    *)
(* character too many at most.                                             *)
(***************************************************************************)
THEOREM ReadsStayInside == ChecksSpec => []ReadsInside
<1>1. ChecksInv => ReadsInside
  BY ChecksAssumption, ArrayReads, TextReadsInside, MemoryInside DEF ChecksInv, ReadsInside
<1> QED
  BY <1>1, ChecksInductive, PTL

LEMMA FailureStutters ==
  /\ Arrays!FailureIsVisible /\ UNCHANGED Arrays!vars => Arrays!FailureIsVisible'
  /\ Numbers!FailureIsVisible /\ UNCHANGED Numbers!vars => Numbers!FailureIsVisible'
  /\ Texts!FailureIsVisible /\ UNCHANGED Texts!vars => Texts!FailureIsVisible'
<1>1. Arrays!FailureIsVisible /\ UNCHANGED Arrays!vars => Arrays!FailureIsVisible'
  BY DEF Arrays!vars, Arrays!FailureIsVisible, Arrays!NoReport
<1>2. Numbers!FailureIsVisible /\ UNCHANGED Numbers!vars => Numbers!FailureIsVisible'
  BY DEF Numbers!vars, Numbers!FailureIsVisible, Numbers!DeltaFits
<1>3. Texts!FailureIsVisible /\ UNCHANGED Texts!vars => Texts!FailureIsVisible'
  BY DEF Texts!vars, Texts!FailureIsVisible, Texts!Expd, Texts!Act
<1> QED
  BY <1>1, <1>2, <1>3

LEMMA FailuresStep ==
  ChecksInv /\ FailuresVisible /\ [ChecksNext]_checksVars => FailuresVisible'
<1> SUFFICES ASSUME ChecksInv, FailuresVisible, [ChecksNext]_checksVars
             PROVE  FailuresVisible'
  OBVIOUS
<1> USE ChecksAssumption
<1>1. part' = part
  BY DEF ChecksNext, checksVars
<1>2. CASE part = "arrays"
  <2>1. Arrays!Next \/ UNCHANGED Arrays!vars
    BY <1>2 DEF ChecksNext, checksVars, assertions, pointers, Arrays!vars
  <2> QED
    BY <1>1, <1>2, <2>1, ArrayFailureShows, FailureStutters DEF ChecksInv, FailuresVisible
<1>3. CASE part = "numbers"
  <2>1. Numbers!Next \/ UNCHANGED Numbers!vars
    BY <1>3 DEF ChecksNext, checksVars, assertions, Numbers!vars
  <2> QED
    BY <1>1, <1>3, <2>1, NumberFailureShows, FailureStutters DEF ChecksInv, FailuresVisible
<1>4. CASE part = "text"
  <2>1. Texts!Next \/ UNCHANGED Texts!vars
    BY <1>4 DEF ChecksNext, checksVars, assertions, indices, Texts!vars
  <2> QED
    BY <1>1, <1>4, <2>1, TextFailureShows, FailureStutters DEF ChecksInv, FailuresVisible
<1>5. CASE part \notin {"arrays", "numbers", "text"}
  BY <1>1, <1>5 DEF FailuresVisible
<1> QED
  BY <1>2, <1>3, <1>4, <1>5

(***************************************************************************)
(* For every width of a byte, and strings of every size: a failure shows a *)
(* difference.  The two numbers printed differ in every style, so do the   *)
(* masked bits that an int has, and so do two texts, as their characters   *)
(* are printed in codes none of which begins another; only a backslash of  *)
(* the text itself may look like the start of one.                         *)
(***************************************************************************)
THEOREM FailuresShowDifference == ChecksSpec => []FailuresVisible
<1>1. ChecksInit => FailuresVisible
  BY DEF ChecksInit, FailuresVisible, Arrays!Init, Arrays!FailureIsVisible, Numbers!Init,
         Numbers!FailureIsVisible, Texts!Init, Texts!FailureIsVisible
<1> QED
  BY <1>1, FailuresStep, ChecksInductive, PTL DEF ChecksSpec
=============================================================================
