-------------------------- MODULE DevicePortProofs --------------------------
(***************************************************************************)
(* UART, SPI and I2C implement DevicePort, for any number of ports and     *)
(* callbacks and any depth of calls made from inside a callback.           *)
(***************************************************************************)
EXTENDS Libraries, SequenceTheorems, TLAPS

-----------------------------------------------------------------------------
(* Calls inside callbacks, as DevicePort sees them. *)

Frame(f)  == [port |-> f.port, callback |-> f.callback]
Frames(s) == [i \in DOMAIN s |-> Frame(s[i])]

LEMMA FramesType ==
  ASSUME NEW S, NEW s \in Seq(S)
  PROVE  /\ Frames(s) \in Seq({Frame(f) : f \in S})
         /\ Len(Frames(s)) = Len(s)
         /\ Frames(s) = << >> <=> s = << >>
         /\ \A i \in 1 .. Len(s) : Frames(s)[i] = Frame(s[i])
<1>1. /\ Len(s) \in Nat /\ DOMAIN s = 1 .. Len(s)
      /\ \A i \in 1 .. Len(s) : s[i] \in S
  BY LenProperties, ElementOfSeq
<1>2. Frames(s) \in [1 .. Len(s) -> {Frame(f) : f \in S}]
  BY <1>1 DEF Frames
<1>3. Frames(s) \in Seq({Frame(f) : f \in S}) /\ Len(Frames(s)) = Len(s)
  BY <1>1, <1>2, IsASeq, LenProperties
<1>4. Frames(s) = << >> <=> s = << >>
  BY <1>3, EmptySeq
<1> QED
  BY <1>1, <1>3, <1>4 DEF Frames

LEMMA FramesAppend ==
  ASSUME NEW S, NEW s \in Seq(S), NEW f \in S
  PROVE  Frames(Append(s, f)) = Append(Frames(s), Frame(f))
<1> DEFINE T == {Frame(g) : g \in S}
           a == Frames(Append(s, f))
           b == Append(Frames(s), Frame(f))
<1>1. /\ Append(s, f) \in Seq(S) /\ Len(Append(s, f)) = Len(s) + 1 /\ Len(s) \in Nat
      /\ \A i \in 1 .. Len(s) : Append(s, f)[i] = s[i]
      /\ Append(s, f)[Len(s) + 1] = f
  BY AppendProperties, LenProperties
<1>2. Frames(s) \in Seq(T) /\ Len(Frames(s)) = Len(s) /\ Frame(f) \in T
  BY FramesType
<1>3. /\ b \in Seq(T) /\ Len(b) = Len(s) + 1
      /\ \A i \in 1 .. Len(s) : b[i] = Frames(s)[i]
      /\ b[Len(s) + 1] = Frame(f)
  BY <1>2, AppendProperties
<1>4. a \in Seq(T) /\ Len(a) = Len(s) + 1
  BY <1>1, FramesType
<1>5. \A i \in 1 .. (Len(s) + 1) : a[i] = Frame(Append(s, f)[i])
  BY <1>1, FramesType
<1>6. \A i \in 1 .. Len(s) : b[i] = Frame(s[i])
  BY <1>3, FramesType
<1> HIDE DEF a, b
<1>7. \A i \in 1 .. Len(a) : a[i] = b[i]
  BY <1>1, <1>3, <1>4, <1>5, <1>6
<1>8. a = b
  BY <1>3, <1>4, <1>7, SeqEqual
<1> QED
  BY <1>8 DEF a, b

LEMMA PrefixProperties ==
  ASSUME NEW S, NEW s \in Seq(S), NEW n \in 0 .. Len(s)
  PROVE  /\ SubSeq(s, 1, n) \in Seq(S)
         /\ Len(SubSeq(s, 1, n)) = n
         /\ \A i \in 1 .. n : SubSeq(s, 1, n)[i] = s[i]
<1>1. n \in Nat /\ Len(s) \in Nat /\ n <= Len(s)
  BY LenProperties
<1>2. \A i \in 1 .. n : s[i] \in S
  BY <1>1, ElementOfSeq
<1> QED
  BY <1>1, <1>2, SubSeqProperties

LEMMA FramesFront ==
  ASSUME NEW S, NEW s \in Seq(S), s # << >>
  PROVE  Frames(SubSeq(s, 1, Len(s) - 1)) = SubSeq(Frames(s), 1, Len(Frames(s)) - 1)
<1> DEFINE T == {Frame(g) : g \in S}
           n == Len(s) - 1
           a == Frames(SubSeq(s, 1, n))
           b == SubSeq(Frames(s), 1, n)
<1>1. Len(s) \in Nat /\ n \in 0 .. Len(s)
  BY EmptySeq, LenProperties
<1>2. /\ SubSeq(s, 1, n) \in Seq(S) /\ Len(SubSeq(s, 1, n)) = n
      /\ \A i \in 1 .. n : SubSeq(s, 1, n)[i] = s[i]
  BY <1>1, PrefixProperties
<1>3. Frames(s) \in Seq(T) /\ Len(Frames(s)) = Len(s)
  BY FramesType
<1>4. /\ b \in Seq(T) /\ Len(b) = n
      /\ \A i \in 1 .. n : b[i] = Frames(s)[i]
  BY <1>1, <1>3, PrefixProperties
<1>5. a \in Seq(T) /\ Len(a) = n /\ \A i \in 1 .. n : a[i] = Frame(SubSeq(s, 1, n)[i])
  BY <1>2, FramesType
<1>6. \A i \in 1 .. n : b[i] = Frame(s[i])
  <2>1. \A i \in 1 .. n : i \in 1 .. Len(s)
    BY <1>1
  <2>2. \A i \in 1 .. Len(s) : Frames(s)[i] = Frame(s[i])
    BY FramesType
  <2> QED
    BY <1>4, <2>1, <2>2
<1> HIDE DEF a, b, n
<1>7. \A i \in 1 .. n : a[i] = b[i]
  BY <1>2, <1>5, <1>6
<1>8. a = b
  BY <1>4, <1>5, <1>7, SeqEqual
<1> QED
  BY <1>3, <1>8 DEF a, b, n

-----------------------------------------------------------------------------
(* SPI.  Besides the types the refinement needs that an initialized bus has *)
(* a callback: simulith_spi_transfer calls it without looking.              *)

spiOpen     == {b \in Spi!Buses : spi_buses[b].initialized}
spiAttached == [b \in Spi!Buses |-> Spi!AsDevice(spi_buses[b].transfer_callback)]
spiResult   == <<spi_answer.port, spi_answer.value, spi_answer.device>>

SpiInv ==
  /\ Spi!TypeOK
  /\ \A b \in Spi!Buses :
       spi_buses[b].initialized => spi_buses[b].transfer_callback # NullPtr

SpiFrame == [port : Spi!Buses, cs : Spi!Buses, callback : SpiCallbacks,
             len : SpiLengths \ {0}]

LEMMA SpiBusIds ==
  ASSUME Spi!SpiAssumption
  PROVE  Spi!Buses \subseteq Spi!BusIds /\ 0 \in Spi!BusIds
BY DEF Spi!SpiAssumption, Spi!Buses, Spi!BusIds

LEMMA SpiConfigValid ==
  ASSUME Spi!SpiAssumption, NEW config \in SpiConfigs, Spi!is_valid_config(config)
  PROVE  config \in Spi!Config
<1>1. config # NullPtr
  BY SMT DEF Spi!is_valid_config
<1> QED
  BY <1>1 DEF Spi!SpiAssumption

\* The two kinds of answers.
LEMMA SpiReturnType ==
  ASSUME NEW call \in {"init", "transfer", "close"}, NEW b \in Spi!BusIds,
         NEW len \in SpiLengths \cup {0}, NEW value \in SpiResults \cup {0, -1},
         Spi!Return(call, b, len, value)
  PROVE  /\ spi_answer' \in [call : {"none", "init", "transfer", "close"},
                             port : Spi!BusIds, len : SpiLengths \cup {0},
                             value : SpiResults \cup {0, -1},
                             device : Spi!Devices \cup {NullPtr}]
         /\ spiResult' = <<b, value, NullPtr>>
BY DEF Spi!Return, spiResult

LEMMA SpiEarlyType ==
  ASSUME SpiInv, NEW call \in {"init", "transfer", "close"}, NEW b \in Spi!BusIds,
         NEW len \in SpiLengths \cup {0}, NEW value \in {0, -1},
         Spi!ReturnEarly(call, b, len, value)
  PROVE  /\ SpiInv'
         /\ spiResult' = <<b, value, NullPtr>>
         /\ UNCHANGED <<spi_buses, spi_calls>>
<1>1. UNCHANGED <<spi_buses, spi_calls>> /\ Spi!Return(call, b, len, value)
  BY DEF Spi!ReturnEarly
<1>2. value \in SpiResults \cup {0, -1}
  OBVIOUS
<1> QED
  BY <1>1, <1>2, SpiReturnType DEF SpiInv, Spi!TypeOK

LEMMA SpiRefuses ==
  ASSUME SpiInv, NEW call \in {"init", "transfer", "close"}, NEW b \in Spi!BusIds,
         NEW len \in SpiLengths \cup {0}, Spi!ReturnEarly(call, b, len, -1)
  PROVE  SpiInv' /\ Spi!Device!Refuse(b)
<1>1. SpiInv' /\ spiResult' = <<b, -1, NullPtr>> /\ UNCHANGED <<spi_buses, spi_calls>>
  BY SpiEarlyType
<1> QED
  BY <1>1 DEF spiResult, Spi!Device!Refuse

LEMMA SpiInitRefines ==
  ASSUME Spi!SpiAssumption, Spi!Init
  PROVE  SpiInv /\ Spi!Device!Init
<1> USE DEF Spi!Init
<1>1. SpiInv
  <2>1. Spi!ZeroConfig \in Spi!Config
    BY DEF Spi!ZeroConfig, Spi!Config
  <2>2. spi_calls \in Seq(SpiFrame) /\ Len(spi_calls) = 0
    BY EmptySeq
  <2>3. spi_buses \in [Spi!Buses -> Spi!spi_bus_t]
    BY <2>1 DEF Spi!spi_bus_t
  <2>4. spi_answer \in [call : {"none", "init", "transfer", "close"},
                        port : Spi!BusIds, len : SpiLengths \cup {0},
                        value : SpiResults \cup {0, -1},
                        device : Spi!Devices \cup {NullPtr}]
    BY SpiBusIds
  <2>5. \A b \in Spi!Buses : ~ spi_buses[b].initialized
    OBVIOUS
  <2>6. Len(spi_calls) <= SpiDepth
    BY <2>2 DEF Spi!SpiAssumption
  <2> QED
    BY <2>2, <2>3, <2>4, <2>5, <2>6 DEF SpiInv, SpiFrame, Spi!TypeOK
<1>2. spiOpen = {}
  BY DEF spiOpen
<1>3. spiAttached \in [Spi!Buses -> Spi!Devices]
  BY DEF spiAttached, Spi!Devices
<1>4. Frames(spi_calls) = << >>
  BY EmptySeq, FramesType
<1>5. spiResult = <<0, 0, NullPtr>>
  BY DEF spiResult
<1> QED
  BY <1>1, <1>2, <1>3, <1>4, <1>5, SpiBusIds
     DEF spiOpen, spiAttached, Frames, Frame, spiResult, Spi!Device!Init

LEMMA SpiAttaches ==
  ASSUME Spi!SpiAssumption, SpiInv, NEW b \in Spi!BusIds, NEW config \in SpiConfigs,
         NEW cb \in SpiCallbacks \cup {NullPtr}, Spi!simulith_spi_init(b, config, cb)
  PROVE  SpiInv' /\ (Spi!Device!Attach(b) \/ Spi!Device!Refuse(b))
<1> DEFINE bus == [initialized |-> TRUE, config |-> config, transfer_callback |-> cb]
<1>1. CASE ~ (/\ b \in Spi!Buses /\ Spi!is_valid_config(config)
              /\ cb # NullPtr /\ ~ Spi!IsOpen(b))
  <2>1. Spi!ReturnEarly("init", b, 0, -1)
    BY <1>1 DEF Spi!simulith_spi_init
  <2> QED
    BY <2>1, SpiRefuses
<1>2. CASE /\ b \in Spi!Buses /\ Spi!is_valid_config(config)
           /\ cb # NullPtr /\ ~ Spi!IsOpen(b)
  <2>1. /\ spi_buses' = [spi_buses EXCEPT ![b] = bus]
        /\ Spi!ReturnAttached(b, cb) /\ spi_calls' = spi_calls
    BY <1>2 DEF Spi!simulith_spi_init
  <2>2. bus \in Spi!spi_bus_t
    BY <1>2, SpiConfigValid DEF Spi!spi_bus_t
  <2>3. spi_buses \in [Spi!Buses -> Spi!spi_bus_t]
    BY DEF SpiInv, Spi!TypeOK
  <2>4. \A c \in Spi!Buses : spi_buses'[c] = IF c = b THEN bus ELSE spi_buses[c]
    BY <2>1, <2>3
  <2>5. Spi!AsDevice(cb) \in Spi!Devices
    BY DEF Spi!Devices
  <2>6. SpiInv'
    <3>1. spi_buses' \in [Spi!Buses -> Spi!spi_bus_t]
      BY <2>1, <2>2, <2>3
    <3>2. spi_answer' \in [call : {"none", "init", "transfer", "close"},
                           port : Spi!BusIds, len : SpiLengths \cup {0},
                           value : SpiResults \cup {0, -1},
                           device : Spi!Devices \cup {NullPtr}]
      BY <2>1, <2>5 DEF Spi!ReturnAttached
    <3> QED
      BY <1>2, <2>1, <2>4, <3>1, <3>2 DEF SpiInv, Spi!TypeOK
  <2>7. spiOpen' = spiOpen \cup {b} /\ b \notin spiOpen
    BY <1>2, <2>4 DEF spiOpen, Spi!IsOpen
  <2>8. spiAttached' = [spiAttached EXCEPT ![b] = Spi!AsDevice(cb)]
    <3>1. bus.transfer_callback = cb
      OBVIOUS
    <3> HIDE DEF bus
    <3>2. \A c \in Spi!Buses : Spi!AsDevice(spi_buses'[c].transfer_callback)
                               = IF c = b THEN Spi!AsDevice(cb)
                                          ELSE Spi!AsDevice(spi_buses[c].transfer_callback)
      BY <2>4, <3>1
    <3> QED
      BY <1>2, <3>2 DEF spiAttached
  <2>9. spiResult' = <<b, 0, Spi!AsDevice(cb)>>
    BY <2>1 DEF spiResult, Spi!ReturnAttached
  <2>10. Spi!Device!Attach(b)
    BY <1>2, <2>1, <2>5, <2>7, <2>8, <2>9
       DEF spiOpen, spiAttached, spiResult, Spi!Device!Attach
  <2> QED
    BY <2>6, <2>10
<1> QED
  BY <1>1, <1>2

LEMMA SpiTransfers ==
  ASSUME Spi!SpiAssumption, SpiInv, NEW b \in Spi!BusIds, NEW cs,
         NEW buffer \in BOOLEAN, NEW len \in SpiLengths,
         Spi!simulith_spi_transfer(b, cs, buffer, len)
  PROVE  /\ SpiInv'
         /\ \/ Spi!Device!Enter(b) \/ Spi!Device!Refuse(b)
            \/ spiResult'[2] \in Nat /\ Spi!Device!Answer(b, spiResult'[2])
<1>1. CASE ~ (Spi!IsOpen(b) /\ cs \in Spi!Buses /\ buffer)
  BY <1>1, SpiRefuses DEF Spi!simulith_spi_transfer
<1>2. CASE Spi!IsOpen(b) /\ cs \in Spi!Buses /\ buffer /\ len = 0
  <2>1. Spi!ReturnEarly("transfer", b, 0, 0)
    BY <1>2 DEF Spi!simulith_spi_transfer
  <2>2. SpiInv' /\ spiResult' = <<b, 0, NullPtr>> /\ UNCHANGED <<spi_buses, spi_calls>>
    BY <2>1, SpiEarlyType
  <2>3. Spi!Device!Answer(b, 0)
    BY <1>2, <2>2 DEF spiResult, Spi!IsOpen, Spi!Device!Answer
  <2> QED
    BY <2>2, <2>3
<1>3. CASE Spi!IsOpen(b) /\ cs \in Spi!Buses /\ buffer /\ len # 0
  <2> DEFINE cb == spi_buses[b].transfer_callback
             frame == [port |-> b, cs |-> cs, len |-> len, callback |-> cb]
  <2>1. /\ Len(spi_calls) < SpiDepth
        /\ spi_calls' = Append(spi_calls, frame)
        /\ UNCHANGED <<spi_buses, spi_answer>>
    BY <1>3 DEF Spi!simulith_spi_transfer, Spi!ReachDevice
  <2>2. b \in Spi!Buses /\ cb \in SpiCallbacks
    BY <1>3 DEF SpiInv, Spi!TypeOK, Spi!spi_bus_t, Spi!IsOpen
  <2>3. spi_calls \in Seq(SpiFrame) /\ frame \in SpiFrame
    BY <1>3, <2>2 DEF SpiInv, Spi!TypeOK, SpiFrame
  <2>4. /\ spi_calls' \in Seq(SpiFrame)
        /\ Len(spi_calls') = Len(spi_calls) + 1 /\ Len(spi_calls) \in Nat
    BY <2>1, <2>3, AppendProperties, LenProperties
  <2>5. SpiInv'
    BY <2>1, <2>4 DEF SpiInv, Spi!TypeOK, SpiFrame, Spi!SpiAssumption
  <2>6. Frames(spi_calls') = Append(Frames(spi_calls), [port |-> b, callback |-> cb])
    BY <2>1, <2>3, FramesAppend DEF Frame
  <2>7. Len(Frames(spi_calls)) < SpiDepth
    BY <2>1, <2>3, FramesType
  <2>8. /\ spiAttached' = spiAttached /\ spiOpen' = spiOpen /\ spiResult' = spiResult
        /\ b \in spiOpen
    BY <1>3, <2>1 DEF spiAttached, spiOpen, spiResult, Spi!IsOpen
  <2>9. "transfer" \in DOMAIN spiAttached[b] /\ spiAttached[b]["transfer"] = cb
    BY <2>2 DEF spiAttached, Spi!AsDevice
  <2>10. cb # NullPtr
    BY <2>2 DEF Spi!SpiAssumption
  <2> HIDE DEF cb
  <2>11. \E op \in DOMAIN spiAttached[b] :
           /\ spiAttached[b][op] # NullPtr
           /\ Frames(spi_calls)' = Append(Frames(spi_calls),
                                          [port |-> b, callback |-> spiAttached[b][op]])
    BY <2>6, <2>9, <2>10 DEF Frames, Frame
  <2>12. Spi!Device!Enter(b)
    BY <2>7, <2>8, <2>11
       DEF spiAttached, spiOpen, spiResult, Frames, Frame, Spi!Device!Enter
  <2> QED
    BY <2>5, <2>12
<1> QED
  BY <1>1, <1>2, <1>3

LEMMA SpiLeaves ==
  ASSUME Spi!SpiAssumption, SpiInv, NEW r \in SpiResults, Spi!CallbackReturns(r)
  PROVE  /\ SpiInv'
         /\ spiResult'[2] \in Int /\ Spi!Device!Leave(spiResult'[2])
<1> DEFINE n == Len(spi_calls)
           frame == spi_calls[n]
<1>1. /\ spi_calls # << >> /\ Spi!Return("transfer", frame.port, frame.len, r)
      /\ spi_calls' = SubSeq(spi_calls, 1, n - 1)
      /\ spi_buses' = spi_buses
  BY DEF Spi!CallbackReturns
<1>2. spi_calls \in Seq(SpiFrame) /\ n <= SpiDepth
  BY DEF SpiInv, Spi!TypeOK, SpiFrame
<1>3. n \in Nat /\ n > 0 /\ n - 1 \in 0 .. n
  BY <1>1, <1>2, EmptySeq, LenProperties
<1>4. frame \in SpiFrame
  BY <1>2, <1>3, ElementOfSeq
<1>5. spi_calls' \in Seq(SpiFrame) /\ Len(spi_calls') = n - 1
  BY <1>1, <1>2, <1>3, PrefixProperties
<1> HIDE DEF n
<1>6. frame.port \in Spi!BusIds /\ frame.len \in SpiLengths
  BY <1>4, SpiBusIds DEF SpiFrame
<1>7. /\ spi_answer' \in [call : {"none", "init", "transfer", "close"},
                          port : Spi!BusIds, len : SpiLengths \cup {0},
                          value : SpiResults \cup {0, -1},
                          device : Spi!Devices \cup {NullPtr}]
      /\ spiResult' = <<frame.port, r, NullPtr>>
  BY <1>1, <1>6, SpiReturnType
<1>8. n - 1 <= SpiDepth
  BY <1>2, <1>3 DEF Spi!SpiAssumption
<1>9. SpiInv'
  BY <1>1, <1>5, <1>7, <1>8 DEF SpiInv, Spi!TypeOK, SpiFrame
<1>10. /\ Frames(spi_calls) # << >>
       /\ Frames(spi_calls)' = SubSeq(Frames(spi_calls), 1, Len(Frames(spi_calls)) - 1)
       /\ Frames(spi_calls)[Len(Frames(spi_calls))].port = frame.port
  <2>1. Frames(spi_calls) # << >> /\ Len(Frames(spi_calls)) = n
    <3>1. /\ Len(Frames(spi_calls)) = Len(spi_calls)
          /\ Frames(spi_calls) = << >> <=> spi_calls = << >>
      BY <1>2, FramesType
    <3> QED
      BY <1>1, <3>1 DEF n
  <2>2. n \in 1 .. Len(spi_calls)
    BY <1>3 DEF n
  <2>3. Frames(spi_calls)[n] = Frame(frame)
    BY <1>2, <2>2, FramesType
  <2>4. Frames(spi_calls') = SubSeq(Frames(spi_calls), 1, Len(Frames(spi_calls)) - 1)
    BY <1>1, <1>2, FramesFront DEF n
  <2>5. Frames(spi_calls)' = Frames(spi_calls')
    BY DEF Frames, Frame
  <2> QED
    BY <2>1, <2>3, <2>4, <2>5 DEF Frame
<1>11. UNCHANGED <<spiOpen, spiAttached>>
  BY <1>1 DEF spiOpen, spiAttached
<1>12. r \in Int /\ spiResult'[2] = r
  BY <1>7 DEF Spi!SpiAssumption
<1>13. Spi!Device!Leave(spiResult'[2])
  BY <1>7, <1>10, <1>11, <1>12
     DEF spiOpen, spiAttached, spiResult, Frames, Frame, Spi!Device!Leave
<1> QED
  BY <1>9, <1>12, <1>13

LEMMA SpiDetaches ==
  ASSUME Spi!SpiAssumption, SpiInv, NEW b \in Spi!BusIds, Spi!simulith_spi_close(b)
  PROVE  SpiInv' /\ (Spi!Device!Detach(b) \/ Spi!Device!Refuse(b))
<1>1. CASE ~ Spi!IsOpen(b)
  BY <1>1, SpiRefuses DEF Spi!simulith_spi_close
<1>2. CASE Spi!IsOpen(b)
  <2>1. /\ spi_buses' = [spi_buses EXCEPT ![b].initialized = FALSE]
        /\ Spi!Return("close", b, 0, 0) /\ spi_calls' = spi_calls
    BY <1>2 DEF Spi!simulith_spi_close
  <2>2. spi_buses \in [Spi!Buses -> Spi!spi_bus_t] /\ b \in Spi!Buses
    BY <1>2 DEF SpiInv, Spi!TypeOK, Spi!IsOpen
  <2>3. /\ spi_buses' \in [Spi!Buses -> Spi!spi_bus_t]
        /\ \A c \in Spi!Buses :
             /\ spi_buses'[c].initialized = (IF c = b THEN FALSE ELSE spi_buses[c].initialized)
             /\ spi_buses'[c].transfer_callback = spi_buses[c].transfer_callback
    BY <2>1, <2>2 DEF Spi!spi_bus_t
  <2>4. /\ spi_answer' \in [call : {"none", "init", "transfer", "close"},
                            port : Spi!BusIds, len : SpiLengths \cup {0},
                            value : SpiResults \cup {0, -1},
                            device : Spi!Devices \cup {NullPtr}]
        /\ spiResult' = <<b, 0, NullPtr>>
    BY <2>1, SpiReturnType
  <2>5. SpiInv'
    BY <2>1, <2>3, <2>4 DEF SpiInv, Spi!TypeOK
  <2>6. spiOpen' = spiOpen \ {b} /\ b \in spiOpen /\ spiAttached' = spiAttached
    BY <1>2, <2>2, <2>3 DEF spiOpen, spiAttached, Spi!IsOpen
  <2>7. Spi!Device!Detach(b)
    BY <2>1, <2>4, <2>6 DEF spiOpen, spiAttached, spiResult, Spi!Device!Detach
  <2> QED
    BY <2>5, <2>7
<1> QED
  BY <1>1, <1>2

LEMMA SpiNextRefines ==
  ASSUME Spi!SpiAssumption, SpiInv, [Spi!Next]_(Spi!vars)
  PROVE  SpiInv' /\ [Spi!Device!Next]_(Spi!Device!vars)
<1>1. ASSUME NEW b \in Spi!BusIds, NEW config \in SpiConfigs,
             NEW cb \in SpiCallbacks \cup {NullPtr}, Spi!simulith_spi_init(b, config, cb)
      PROVE  SpiInv' /\ Spi!Device!Next
  BY <1>1, SpiAttaches DEF Spi!Device!Next
<1>2. ASSUME NEW b \in Spi!BusIds, NEW cs, NEW buffer \in BOOLEAN, NEW len \in SpiLengths,
             Spi!simulith_spi_transfer(b, cs, buffer, len)
      PROVE  SpiInv' /\ Spi!Device!Next
  BY <1>2, SpiTransfers DEF Spi!Device!Next, spiResult
<1>3. ASSUME NEW b \in Spi!BusIds, Spi!simulith_spi_close(b)
      PROVE  SpiInv' /\ Spi!Device!Next
  BY <1>3, SpiDetaches DEF Spi!Device!Next
<1>4. ASSUME NEW r \in SpiResults, Spi!CallbackReturns(r)
      PROVE  SpiInv' /\ Spi!Device!Next
  BY <1>4, SpiLeaves DEF Spi!Device!Next, spiResult
<1>5. CASE UNCHANGED Spi!vars
  BY <1>5 DEF Spi!vars, Spi!Device!vars, SpiInv, Spi!TypeOK
<1> QED
  BY <1>1, <1>2, <1>3, <1>4, <1>5 DEF Spi!Next

LEMMA SpiInvHolds ==
  ASSUME Spi!SpiAssumption
  PROVE  Spi!Spec => []SpiInv
<1>1. Spi!Init => SpiInv
  BY SpiInitRefines
<1>2. SpiInv /\ [Spi!Next]_(Spi!vars) => SpiInv'
  BY SpiNextRefines
<1> QED
  BY <1>1, <1>2, PTL DEF Spi!Spec

\* SPI: the table, the nested transfers and the answers keep their types.
THEOREM SpiTypeCorrect ==
  ASSUME Spi!SpiAssumption
  PROVE  Spi!Spec => []Spi!TypeOK
<1>1. SpiInv => Spi!TypeOK
  BY DEF SpiInv
<1> QED
  BY <1>1, SpiInvHolds, PTL

\* SPI: every transfer reaches the device of the init in force, whatever callbacks
\* do to the buses while they run, and returns what that device returned.
THEOREM SpiImplements ==
  ASSUME Spi!SpiAssumption
  PROVE  Spi!Spec => Spi!ImplementsDevicePort
<1>1. Spi!Init => SpiInv /\ Spi!Device!Init
  BY SpiInitRefines
<1>2. SpiInv /\ [Spi!Next]_(Spi!vars) => SpiInv' /\ [Spi!Device!Next]_(Spi!Device!vars)
  BY SpiNextRefines
<1> QED
  BY <1>1, <1>2, PTL DEF Spi!Spec, Spi!ImplementsDevicePort, Spi!Device!Spec

-----------------------------------------------------------------------------
(* I2C.  A bus in use may be initialised again, so the device inside a call *)
(* need not be the one on the bus.                                          *)

i2cOpen     == {b \in I2c!Buses : i2c_buses[b].initialized}
i2cAttached == [b \in I2c!Buses |-> I2c!AsDevice(i2c_buses[b].read_cb,
                                                 i2c_buses[b].write_cb)]
i2cResult   == <<i2c_answer.port, i2c_answer.value, i2c_answer.device>>

I2cInv ==
  /\ I2c!TypeOK
  /\ \A b \in I2c!Buses :
       i2c_buses[b].initialized =>
         i2c_buses[b].read_cb # NullPtr /\ i2c_buses[b].write_cb # NullPtr

I2cFrame == [port : I2c!Buses, callback : I2cCallbacks]

LEMMA I2cBusIds ==
  ASSUME I2c!I2cAssumption
  PROVE  I2c!Buses \subseteq I2c!BusIds /\ 0 \in I2c!BusIds
BY DEF I2c!I2cAssumption, I2c!Buses, I2c!BusIds

LEMMA I2cReturnType ==
  ASSUME NEW b \in I2c!BusIds, NEW value \in I2cResults \cup {0, -1}, I2c!Return(b, value)
  PROVE  /\ i2c_answer' \in [port : I2c!BusIds, value : I2cResults \cup {0, -1},
                             device : I2c!Devices \cup {NullPtr}]
         /\ i2cResult' = <<b, value, NullPtr>>
BY DEF I2c!Return, i2cResult

LEMMA I2cRefuses ==
  ASSUME I2cInv, NEW b \in I2c!BusIds, I2c!Reject(b)
  PROVE  I2cInv' /\ I2c!Device!Refuse(b)
<1>1. UNCHANGED <<i2c_buses, i2c_calls>> /\ I2c!Return(b, -1)
  BY DEF I2c!Reject
<1>2. /\ i2c_answer' \in [port : I2c!BusIds, value : I2cResults \cup {0, -1},
                          device : I2c!Devices \cup {NullPtr}]
      /\ i2cResult' = <<b, -1, NullPtr>>
  BY <1>1, I2cReturnType
<1>3. I2cInv'
  BY <1>1, <1>2 DEF I2cInv, I2c!TypeOK
<1> QED
  BY <1>1, <1>2, <1>3 DEF i2cResult, I2c!Device!Refuse

LEMMA I2cInitRefines ==
  ASSUME I2c!I2cAssumption, I2c!Init
  PROVE  I2cInv /\ I2c!Device!Init
<1> USE DEF I2c!Init
<1>1. I2cInv
  <2>1. i2c_calls \in Seq(I2cFrame) /\ Len(i2c_calls) = 0
    BY EmptySeq
  <2>2. i2c_buses \in [I2c!Buses -> I2c!i2c_bus_t]
    BY DEF I2c!i2c_bus_t
  <2>3. i2c_answer \in [port : I2c!BusIds, value : I2cResults \cup {0, -1},
                        device : I2c!Devices \cup {NullPtr}]
    BY I2cBusIds
  <2>4. \A b \in I2c!Buses : ~ i2c_buses[b].initialized
    OBVIOUS
  <2>5. Len(i2c_calls) <= I2cDepth
    BY <2>1 DEF I2c!I2cAssumption
  <2> QED
    BY <2>1, <2>2, <2>3, <2>4, <2>5 DEF I2cInv, I2cFrame, I2c!TypeOK
<1>2. i2cOpen = {}
  BY DEF i2cOpen
<1>3. i2cAttached \in [I2c!Buses -> I2c!Devices]
  BY DEF i2cAttached, I2c!Devices, I2c!AsDevice
<1>4. i2cResult = <<0, 0, NullPtr>>
  BY DEF i2cResult
<1> QED
  BY <1>1, <1>2, <1>3, <1>4, I2cBusIds
     DEF i2cOpen, i2cAttached, i2cResult, I2c!Device!Init

LEMMA I2cAttaches ==
  ASSUME I2c!I2cAssumption, I2cInv, NEW b \in I2c!BusIds,
         NEW read_cb \in I2cCallbacks \cup {NullPtr},
         NEW write_cb \in I2cCallbacks \cup {NullPtr},
         I2c!simulith_i2c_init(b, read_cb, write_cb)
  PROVE  I2cInv' /\ (I2c!Device!Attach(b) \/ I2c!Device!Refuse(b))
<1> DEFINE bus == [initialized |-> TRUE, read_cb |-> read_cb, write_cb |-> write_cb]
           d == I2c!AsDevice(read_cb, write_cb)
<1>1. CASE ~ (b \in I2c!Buses /\ read_cb # NullPtr /\ write_cb # NullPtr)
  <2>1. I2c!Reject(b)
    BY <1>1 DEF I2c!simulith_i2c_init
  <2> QED
    BY <2>1, I2cRefuses
<1>2. CASE b \in I2c!Buses /\ read_cb # NullPtr /\ write_cb # NullPtr
  <2>1. /\ i2c_buses' = [i2c_buses EXCEPT ![b] = bus]
        /\ i2c_answer' = [port |-> b, value |-> 0, device |-> d]
        /\ i2c_calls' = i2c_calls
    BY <1>2 DEF I2c!simulith_i2c_init
  <2>2. bus \in I2c!i2c_bus_t /\ bus.read_cb = read_cb /\ bus.write_cb = write_cb
    BY DEF I2c!i2c_bus_t
  <2>3. d \in I2c!Devices
    BY DEF I2c!Devices, I2c!AsDevice
  <2> HIDE DEF d
  <2>4. i2c_buses \in [I2c!Buses -> I2c!i2c_bus_t]
    BY DEF I2cInv, I2c!TypeOK
  <2>5. \A c \in I2c!Buses : i2c_buses'[c] = IF c = b THEN bus ELSE i2c_buses[c]
    BY <2>1, <2>4
  <2>6. I2cInv'
    <3>1. i2c_buses' \in [I2c!Buses -> I2c!i2c_bus_t]
      BY <2>1, <2>2, <2>4
    <3>2. i2c_answer' \in [port : I2c!BusIds, value : I2cResults \cup {0, -1},
                           device : I2c!Devices \cup {NullPtr}]
      BY <2>1, <2>3
    <3> QED
      BY <1>2, <2>1, <2>2, <2>5, <3>1, <3>2 DEF I2cInv, I2c!TypeOK
  <2>7. i2cOpen' = i2cOpen \cup {b}
    BY <1>2, <2>5 DEF i2cOpen
  <2>8. i2cAttached' = [i2cAttached EXCEPT ![b] = d]
    <3> HIDE DEF bus
    <3>1. \A c \in I2c!Buses : I2c!AsDevice(i2c_buses'[c].read_cb, i2c_buses'[c].write_cb)
                               = IF c = b THEN d
                                          ELSE I2c!AsDevice(i2c_buses[c].read_cb,
                                                            i2c_buses[c].write_cb)
      BY <2>2, <2>5 DEF d
    <3> QED
      BY <1>2, <3>1 DEF i2cAttached
  <2>9. i2cResult' = <<b, 0, d>>
    BY <2>1 DEF i2cResult
  <2>10. I2c!Device!Attach(b)
    BY <1>2, <2>1, <2>3, <2>7, <2>8, <2>9
       DEF i2cOpen, i2cAttached, i2cResult, I2c!Device!Attach
  <2> QED
    BY <2>6, <2>10
<1> QED
  BY <1>1, <1>2

\* A read or a write enters the callback that the bus has now for the operation.
LEMMA I2cEnters ==
  ASSUME I2c!I2cAssumption, I2cInv, NEW b, I2c!IsOpen(b), NEW op \in I2c!Ops, NEW cb,
         cb = IF op = "read" THEN i2c_buses[b].read_cb ELSE i2c_buses[b].write_cb,
         I2c!ReachDevice(b, cb)
  PROVE  I2cInv' /\ I2c!Device!Enter(b)
<1> DEFINE frame == [port |-> b, callback |-> cb]
<1>1. /\ Len(i2c_calls) < I2cDepth
      /\ i2c_calls' = Append(i2c_calls, frame)
      /\ UNCHANGED <<i2c_buses, i2c_answer>>
  BY DEF I2c!ReachDevice
<1>2. b \in I2c!Buses /\ cb \in I2cCallbacks
  BY DEF I2cInv, I2c!TypeOK, I2c!i2c_bus_t, I2c!IsOpen
<1>3. i2c_calls \in Seq(I2cFrame) /\ frame \in I2cFrame
  BY <1>2 DEF I2cInv, I2c!TypeOK, I2cFrame
<1>4. /\ i2c_calls' \in Seq(I2cFrame)
      /\ Len(i2c_calls') = Len(i2c_calls) + 1 /\ Len(i2c_calls) \in Nat
  BY <1>1, <1>3, AppendProperties, LenProperties
<1>5. I2cInv'
  BY <1>1, <1>4 DEF I2cInv, I2c!TypeOK, I2cFrame, I2c!I2cAssumption
<1>6. /\ i2cAttached' = i2cAttached /\ i2cOpen' = i2cOpen /\ i2cResult' = i2cResult
      /\ b \in i2cOpen
  BY <1>1 DEF i2cAttached, i2cOpen, i2cResult, I2c!IsOpen
<1>7. op \in DOMAIN i2cAttached[b] /\ i2cAttached[b][op] = cb
  BY <1>2 DEF i2cAttached, I2c!AsDevice
<1>8. cb # NullPtr
  BY <1>2 DEF I2c!I2cAssumption
<1>9. \E o \in DOMAIN i2cAttached[b] :
        /\ i2cAttached[b][o] # NullPtr
        /\ i2c_calls' = Append(i2c_calls, [port |-> b, callback |-> i2cAttached[b][o]])
  BY <1>1, <1>7, <1>8
<1>10. I2c!Device!Enter(b)
  BY <1>1, <1>6, <1>9 DEF i2cAttached, i2cOpen, i2cResult, I2c!Device!Enter
<1> QED
  BY <1>5, <1>10

LEMMA I2cReadsOrWrites ==
  ASSUME I2c!I2cAssumption, I2cInv, NEW b \in I2c!BusIds, NEW buffer \in BOOLEAN,
         NEW len \in I2cLengths,
         I2c!simulith_i2c_read(b, buffer, len) \/ I2c!simulith_i2c_write(b, buffer, len)
  PROVE  I2cInv' /\ (I2c!Device!Enter(b) \/ I2c!Device!Refuse(b))
<1>1. CASE I2c!Reject(b)
  BY <1>1, I2cRefuses
<1>2. CASE I2c!IsOpen(b) /\ I2c!ReachDevice(b, i2c_buses[b].read_cb)
  BY <1>2, I2cEnters DEF I2c!Ops
<1>3. CASE I2c!IsOpen(b) /\ I2c!ReachDevice(b, i2c_buses[b].write_cb)
  BY <1>3, I2cEnters DEF I2c!Ops
<1> QED
  BY <1>1, <1>2, <1>3 DEF I2c!simulith_i2c_read, I2c!simulith_i2c_write

LEMMA I2cLeaves ==
  ASSUME I2c!I2cAssumption, I2cInv, NEW r \in I2cResults, I2c!CallbackReturns(r)
  PROVE  /\ I2cInv'
         /\ i2cResult'[2] \in Int /\ I2c!Device!Leave(i2cResult'[2])
<1> DEFINE n == Len(i2c_calls)
<1>1. /\ i2c_calls # << >> /\ I2c!Return(i2c_calls[n].port, r)
      /\ i2c_calls' = SubSeq(i2c_calls, 1, n - 1)
      /\ i2c_buses' = i2c_buses
  BY DEF I2c!CallbackReturns
<1>2. i2c_calls \in Seq(I2cFrame) /\ n <= I2cDepth
  BY DEF I2cInv, I2c!TypeOK, I2cFrame
<1>3. n \in Nat /\ n > 0 /\ n - 1 \in 0 .. n
  BY <1>1, <1>2, EmptySeq, LenProperties
<1>4. i2c_calls[n] \in I2cFrame
  BY <1>2, <1>3, ElementOfSeq
<1>5. i2c_calls' \in Seq(I2cFrame) /\ Len(i2c_calls') = n - 1
  BY <1>1, <1>2, <1>3, PrefixProperties
<1>6. i2c_calls[n].port \in I2c!BusIds
  BY <1>4, I2cBusIds DEF I2cFrame
<1>7. /\ i2c_answer' \in [port : I2c!BusIds, value : I2cResults \cup {0, -1},
                          device : I2c!Devices \cup {NullPtr}]
      /\ i2cResult' = <<i2c_calls[n].port, r, NullPtr>>
  BY <1>1, <1>6, I2cReturnType
<1>8. n - 1 <= I2cDepth
  BY <1>2, <1>3 DEF I2c!I2cAssumption
<1>9. I2cInv'
  BY <1>1, <1>5, <1>7, <1>8 DEF I2cInv, I2c!TypeOK, I2cFrame
<1>10. UNCHANGED <<i2cOpen, i2cAttached>>
  BY <1>1 DEF i2cOpen, i2cAttached
<1>11. r \in Int /\ i2cResult'[2] = r
  BY <1>7 DEF I2c!I2cAssumption
<1>12. I2c!Device!Leave(i2cResult'[2])
  BY <1>1, <1>7, <1>10, <1>11 DEF i2cOpen, i2cAttached, i2cResult, I2c!Device!Leave
<1> QED
  BY <1>9, <1>11, <1>12

LEMMA I2cNextRefines ==
  ASSUME I2c!I2cAssumption, I2cInv, [I2c!Next]_(I2c!vars)
  PROVE  I2cInv' /\ [I2c!Device!Next]_(I2c!Device!vars)
<1>1. ASSUME NEW b \in I2c!BusIds,
             NEW read_cb \in I2cCallbacks \cup {NullPtr},
             NEW write_cb \in I2cCallbacks \cup {NullPtr},
             I2c!simulith_i2c_init(b, read_cb, write_cb)
      PROVE  I2cInv' /\ I2c!Device!Next
  BY <1>1, I2cAttaches DEF I2c!Device!Next
<1>2. ASSUME NEW b \in I2c!BusIds, NEW buffer \in BOOLEAN, NEW len \in I2cLengths,
             I2c!simulith_i2c_read(b, buffer, len) \/ I2c!simulith_i2c_write(b, buffer, len)
      PROVE  I2cInv' /\ I2c!Device!Next
  BY <1>2, I2cReadsOrWrites DEF I2c!Device!Next
<1>3. ASSUME NEW r \in I2cResults, I2c!CallbackReturns(r)
      PROVE  I2cInv' /\ I2c!Device!Next
  BY <1>3, I2cLeaves DEF I2c!Device!Next, i2cResult
<1>4. CASE UNCHANGED I2c!vars
  BY <1>4 DEF I2c!vars, I2c!Device!vars, I2cInv, I2c!TypeOK
<1> QED
  BY <1>1, <1>2, <1>3, <1>4 DEF I2c!Next

LEMMA I2cInvHolds ==
  ASSUME I2c!I2cAssumption
  PROVE  I2c!Spec => []I2cInv
<1>1. I2c!Init => I2cInv
  BY I2cInitRefines
<1>2. I2cInv /\ [I2c!Next]_(I2c!vars) => I2cInv'
  BY I2cNextRefines
<1> QED
  BY <1>1, <1>2, PTL DEF I2c!Spec

\* I2C: the table, the nested calls and the answers keep their types.
THEOREM I2cTypeCorrect ==
  ASSUME I2c!I2cAssumption
  PROVE  I2c!Spec => []I2c!TypeOK
<1>1. I2cInv => I2c!TypeOK
  BY DEF I2cInv
<1> QED
  BY <1>1, I2cInvHolds, PTL

\* I2C: a read or a write reaches a callback of the last init of its bus, and
\* returns what that callback returned, even if the device was replaced meanwhile.
THEOREM I2cImplements ==
  ASSUME I2c!I2cAssumption
  PROVE  I2c!Spec => I2c!ImplementsDevicePort
<1>1. I2c!Init => I2cInv /\ I2c!Device!Init
  BY I2cInitRefines
<1>2. I2cInv /\ [I2c!Next]_(I2c!vars) => I2cInv' /\ [I2c!Device!Next]_(I2c!Device!vars)
  BY I2cNextRefines
<1> QED
  BY <1>1, <1>2, PTL DEF I2c!Spec, I2c!ImplementsDevicePort, I2c!Device!Spec

-----------------------------------------------------------------------------
(* UART.  The callback may be NULL, and data sent then goes nowhere: nothing *)
(* ever enters the receive buffer, so both its indices stay 0.               *)

uartOpen     == {p \in Uart!Ports : uart_ports[p].initialized}
uartAttached == [p \in Uart!Ports |-> Uart!AsDevice(uart_ports[p].rx_callback)]
uartResult   == <<uart_answer.port, uart_answer.value, uart_answer.device>>

UartInv ==
  /\ Uart!TypeOK
  /\ \A p \in Uart!Ports :
       uart_ports[p].rx_buffer_head = 0 /\ uart_ports[p].rx_buffer_tail = 0

UartFrame == [port : Uart!Ports, callback : UartCallbacks, len : UartLengths \ {0}]

UartAnswers == [call : Uart!CallNames, port : Uart!PortIds, len : UartLengths \cup {0},
                value : UartLengths \cup UartResults \cup {0, -1},
                device : Uart!Devices \cup {NullPtr}]

LEMMA UartPortIds ==
  ASSUME Uart!UartAssumption
  PROVE  Uart!Ports \subseteq Uart!PortIds /\ 0 \in Uart!PortIds
BY DEF Uart!UartAssumption, Uart!Ports, Uart!PortIds

LEMMA UartConfigValid ==
  ASSUME Uart!UartAssumption, NEW config \in UartConfigs, Uart!is_valid_config(config)
  PROVE  config \in Uart!Config
<1>1. config # NullPtr
  BY SMT DEF Uart!is_valid_config
<1> QED
  BY <1>1 DEF Uart!UartAssumption

LEMMA UartReturnType ==
  ASSUME NEW call \in Uart!CallNames, NEW p \in Uart!PortIds,
         NEW len \in UartLengths \cup {0},
         NEW value \in UartLengths \cup UartResults \cup {0, -1},
         Uart!Return(call, p, len, value)
  PROVE  /\ uart_answer' \in UartAnswers
         /\ uartResult' = <<p, value, NullPtr>>
BY DEF Uart!Return, uartResult, UartAnswers

\* A call that changes nothing but the answer.
LEMMA UartAnswerOnly ==
  ASSUME UartInv, NEW call \in Uart!CallNames, NEW p \in Uart!PortIds,
         NEW len \in UartLengths \cup {0},
         NEW value \in UartLengths \cup UartResults \cup {0, -1},
         Uart!Return(call, p, len, value), UNCHANGED <<uart_ports, uart_calls>>
  PROVE  /\ UartInv'
         /\ value = -1 => Uart!Device!Refuse(p)
         /\ Uart!IsOpen(p) /\ value \in Nat =>
              /\ uartResult'[2] \in Nat
              /\ Uart!Device!Answer(p, uartResult'[2])
<1>1. uart_answer' \in UartAnswers /\ uartResult' = <<p, value, NullPtr>>
  BY UartReturnType
<1>2. UartInv'
  BY <1>1 DEF UartInv, UartAnswers, Uart!TypeOK
<1>3. value = -1 => Uart!Device!Refuse(p)
  BY <1>1 DEF uartResult, Uart!Device!Refuse
<1>4. ASSUME Uart!IsOpen(p), value \in Nat
      PROVE  uartResult'[2] \in Nat /\ Uart!Device!Answer(p, uartResult'[2])
  BY <1>1, <1>4 DEF uartResult, Uart!IsOpen, Uart!Device!Answer
<1> QED
  BY <1>2, <1>3, <1>4

LEMMA UartRefuses ==
  ASSUME UartInv, NEW call \in Uart!CallNames, NEW p \in Uart!PortIds,
         NEW len \in UartLengths \cup {0}, Uart!Reject(call, p, len)
  PROVE  UartInv' /\ Uart!Device!Refuse(p)
<1>1. -1 \in UartLengths \cup UartResults \cup {0, -1}
  OBVIOUS
<1>2. Uart!Return(call, p, len, -1) /\ UNCHANGED <<uart_ports, uart_calls>>
  BY DEF Uart!Reject
<1> QED
  BY <1>1, <1>2, UartAnswerOnly

\* Polling finds nothing.
LEMMA UartEmpty ==
  ASSUME Uart!UartAssumption, UartInv, NEW p \in Uart!Ports
  PROVE  Uart!bytes_available(p) = 0
<1>1. 0 % RX_BUFFER_SIZE = 0
  BY DEF Uart!UartAssumption
<1>2. uart_ports[p].rx_buffer_head - uart_ports[p].rx_buffer_tail = 0
  BY DEF UartInv
<1> QED
  BY <1>1, <1>2 DEF Uart!bytes_available

LEMMA UartInitRefines ==
  ASSUME Uart!UartAssumption, Uart!Init
  PROVE  UartInv /\ Uart!Device!Init
<1> USE DEF Uart!Init
<1>1. UartInv
  <2>1. Uart!ZeroConfig \in Uart!Config
    BY DEF Uart!ZeroConfig, Uart!Config
  <2>2. uart_calls \in Seq(UartFrame) /\ Len(uart_calls) = 0
    BY EmptySeq
  <2>3. 0 \in 0 .. (RX_BUFFER_SIZE - 1)
    BY DEF Uart!UartAssumption
  <2>4. uart_ports \in [Uart!Ports -> Uart!uart_port_t]
    BY <2>1, <2>3 DEF Uart!uart_port_t
  <2>5. uart_answer \in UartAnswers
    BY UartPortIds DEF UartAnswers, Uart!CallNames
  <2>6. Len(uart_calls) <= UartDepth
    BY <2>2 DEF Uart!UartAssumption
  <2>7. \A p \in Uart!Ports :
          uart_ports[p].rx_buffer_head = 0 /\ uart_ports[p].rx_buffer_tail = 0
    OBVIOUS
  <2> QED
    BY <2>2, <2>4, <2>5, <2>6, <2>7 DEF UartInv, UartFrame, UartAnswers, Uart!TypeOK
<1>2. uartOpen = {}
  BY DEF uartOpen
<1>3. uartAttached \in [Uart!Ports -> Uart!Devices]
  BY DEF uartAttached, Uart!Devices
<1>4. Frames(uart_calls) = << >>
  BY EmptySeq, FramesType
<1>5. uartResult = <<0, 0, NullPtr>>
  BY DEF uartResult
<1> QED
  BY <1>1, <1>2, <1>3, <1>4, <1>5, UartPortIds
     DEF uartOpen, uartAttached, Frames, Frame, uartResult, Uart!Device!Init

LEMMA UartAttaches ==
  ASSUME Uart!UartAssumption, UartInv, NEW p \in Uart!PortIds,
         NEW config \in UartConfigs, NEW cb \in UartCallbacks \cup {NullPtr},
         Uart!simulith_uart_init(p, config, cb)
  PROVE  UartInv' /\ (Uart!Device!Attach(p) \/ Uart!Device!Refuse(p))
<1> DEFINE port == [initialized |-> TRUE, config |-> config, rx_callback |-> cb,
                    rx_buffer_head |-> 0, rx_buffer_tail |-> 0]
<1>1. CASE ~ (p \in Uart!Ports /\ Uart!is_valid_config(config) /\ ~ Uart!IsOpen(p))
  <2>1. Uart!Reject("init", p, 0)
    BY <1>1 DEF Uart!simulith_uart_init
  <2> QED
    BY <2>1, UartRefuses DEF Uart!CallNames
<1>2. CASE p \in Uart!Ports /\ Uart!is_valid_config(config) /\ ~ Uart!IsOpen(p)
  <2>1. /\ uart_ports' = [uart_ports EXCEPT ![p] = port]
        /\ Uart!ReturnAttached(p, cb) /\ uart_calls' = uart_calls
    BY <1>2 DEF Uart!simulith_uart_init
  <2>2. port \in Uart!uart_port_t
    <3>1. 0 \in 0 .. (RX_BUFFER_SIZE - 1)
      BY DEF Uart!UartAssumption
    <3> QED
      BY <1>2, <3>1, UartConfigValid DEF Uart!uart_port_t
  <2>3. uart_ports \in [Uart!Ports -> Uart!uart_port_t]
    BY DEF UartInv, Uart!TypeOK
  <2>4. \A q \in Uart!Ports : uart_ports'[q] = IF q = p THEN port ELSE uart_ports[q]
    BY <2>1, <2>3
  <2>5. /\ port.rx_callback = cb /\ port.initialized
        /\ port.rx_buffer_head = 0 /\ port.rx_buffer_tail = 0
    OBVIOUS
  <2> HIDE DEF port
  <2>6. Uart!AsDevice(cb) \in Uart!Devices
    BY DEF Uart!Devices
  <2>7. UartInv'
    <3>1. uart_ports' \in [Uart!Ports -> Uart!uart_port_t]
      BY <2>1, <2>2, <2>3
    <3>2. uart_answer' \in UartAnswers
      BY <2>1, <2>6 DEF Uart!ReturnAttached, UartAnswers, Uart!CallNames
    <3> QED
      BY <2>1, <2>4, <2>5, <3>1, <3>2 DEF UartInv, UartAnswers, Uart!TypeOK
  <2>8. uartOpen' = uartOpen \cup {p} /\ p \notin uartOpen
    BY <1>2, <2>4, <2>5 DEF uartOpen, Uart!IsOpen
  <2>9. uartAttached' = [uartAttached EXCEPT ![p] = Uart!AsDevice(cb)]
    <3>1. \A q \in Uart!Ports : Uart!AsDevice(uart_ports'[q].rx_callback)
                                = IF q = p THEN Uart!AsDevice(cb)
                                           ELSE Uart!AsDevice(uart_ports[q].rx_callback)
      BY <2>4, <2>5
    <3> QED
      BY <1>2, <3>1 DEF uartAttached
  <2>10. uartResult' = <<p, 0, Uart!AsDevice(cb)>>
    BY <2>1 DEF uartResult, Uart!ReturnAttached
  <2>11. Uart!Device!Attach(p)
    BY <1>2, <2>1, <2>6, <2>8, <2>9, <2>10
       DEF uartOpen, uartAttached, uartResult, Uart!Device!Attach
  <2> QED
    BY <2>7, <2>11
<1> QED
  BY <1>1, <1>2

LEMMA UartEnters ==
  ASSUME Uart!UartAssumption, UartInv, NEW p, Uart!IsOpen(p), NEW len \in UartLengths \ {0},
         Uart!SendLoopback(p, len)
  PROVE  UartInv' /\ Uart!Device!Enter(p)
<1> DEFINE cb == uart_ports[p].rx_callback
           frame == [port |-> p, callback |-> cb, len |-> len]
<1>1. /\ cb # NullPtr
      /\ Len(uart_calls) < UartDepth
      /\ uart_calls' = Append(uart_calls, frame)
      /\ UNCHANGED <<uart_ports, uart_answer>>
  BY DEF Uart!SendLoopback
<1>2. p \in Uart!Ports /\ cb \in UartCallbacks
  BY <1>1 DEF UartInv, Uart!TypeOK, Uart!uart_port_t, Uart!IsOpen
<1>3. uart_calls \in Seq(UartFrame) /\ frame \in UartFrame
  BY <1>2 DEF UartInv, Uart!TypeOK, UartFrame
<1>4. /\ uart_calls' \in Seq(UartFrame)
      /\ Len(uart_calls') = Len(uart_calls) + 1 /\ Len(uart_calls) \in Nat
  BY <1>1, <1>3, AppendProperties, LenProperties
<1>5. UartInv'
  BY <1>1, <1>4 DEF UartInv, Uart!TypeOK, UartFrame, Uart!UartAssumption
<1>6. Frames(uart_calls') = Append(Frames(uart_calls), [port |-> p, callback |-> cb])
  BY <1>1, <1>3, FramesAppend DEF Frame
<1>7. Len(Frames(uart_calls)) < UartDepth
  BY <1>1, <1>3, FramesType
<1>8. /\ uartAttached' = uartAttached /\ uartOpen' = uartOpen /\ uartResult' = uartResult
      /\ p \in uartOpen
  BY <1>1 DEF uartAttached, uartOpen, uartResult, Uart!IsOpen
<1>9. "send" \in DOMAIN uartAttached[p] /\ uartAttached[p]["send"] = cb
  BY <1>2 DEF uartAttached, Uart!AsDevice
<1> HIDE DEF cb
<1>10. \E op \in DOMAIN uartAttached[p] :
         /\ uartAttached[p][op] # NullPtr
         /\ Frames(uart_calls)' = Append(Frames(uart_calls),
                                         [port |-> p, callback |-> uartAttached[p][op]])
  BY <1>1, <1>6, <1>9 DEF Frames, Frame
<1>11. Uart!Device!Enter(p)
  BY <1>7, <1>8, <1>10
     DEF uartAttached, uartOpen, uartResult, Frames, Frame, Uart!Device!Enter
<1> QED
  BY <1>5, <1>11

LEMMA UartSends ==
  ASSUME Uart!UartAssumption, UartInv, NEW p \in Uart!PortIds, NEW buffer \in BOOLEAN,
         NEW len \in UartLengths, Uart!simulith_uart_send(p, buffer, len)
  PROVE  /\ UartInv'
         /\ \/ Uart!Device!Enter(p) \/ Uart!Device!Refuse(p)
            \/ uartResult'[2] \in Nat /\ Uart!Device!Answer(p, uartResult'[2])
<1>1. CASE ~ (Uart!IsOpen(p) /\ buffer /\ len # 0)
  BY <1>1, UartRefuses DEF Uart!simulith_uart_send, Uart!CallNames
<1>2. CASE Uart!IsOpen(p) /\ Uart!SendDirect(p, len)
  BY <1>2, UartAnswerOnly DEF Uart!SendDirect, Uart!CallNames, Uart!UartAssumption
<1>3. CASE Uart!IsOpen(p) /\ len # 0 /\ Uart!SendLoopback(p, len)
  BY <1>3, UartEnters
<1> QED
  BY <1>1, <1>2, <1>3 DEF Uart!simulith_uart_send

\* simulith_uart_receive reads nothing and leaves the buffer as it is.
LEMMA UartReceives ==
  ASSUME Uart!UartAssumption, UartInv, NEW p \in Uart!PortIds, NEW buffer \in BOOLEAN,
         NEW len \in UartLengths, Uart!simulith_uart_receive(p, buffer, len)
  PROVE  /\ UartInv'
         /\ \/ Uart!Device!Refuse(p)
            \/ uartResult'[2] \in Nat /\ Uart!Device!Answer(p, uartResult'[2])
<1>1. CASE ~ (Uart!IsOpen(p) /\ buffer /\ len # 0)
  BY <1>1, UartRefuses DEF Uart!simulith_uart_receive, Uart!CallNames
<1>2. CASE Uart!IsOpen(p) /\ buffer /\ len # 0
  <2> DEFINE n == Uart!Min({Uart!bytes_available(p), len})
  <2>1. /\ uart_ports' = [uart_ports EXCEPT ![p].rx_buffer_tail = (@ + n) % RX_BUFFER_SIZE]
        /\ Uart!Return("receive", p, len, n) /\ uart_calls' = uart_calls
    BY <1>2 DEF Uart!simulith_uart_receive
  <2>2. p \in Uart!Ports /\ uart_ports \in [Uart!Ports -> Uart!uart_port_t]
    BY <1>2 DEF UartInv, Uart!TypeOK, Uart!IsOpen
  <2>3. n = 0
    <3>1. len \in Nat /\ Uart!bytes_available(p) = 0
      BY <2>2, UartEmpty DEF Uart!UartAssumption
    <3>2. n = CHOOSE x \in {0, len} : \A y \in {0, len} : x =< y
      BY <3>1 DEF Uart!Min
    <3> QED
      BY <3>1, <3>2
  <2>4. uart_ports[p].rx_buffer_tail = 0 /\ (0 + 0) % RX_BUFFER_SIZE = 0
    BY <2>2 DEF UartInv, Uart!UartAssumption
  <2> HIDE DEF n
  <2>5. uart_ports' = uart_ports
    BY <2>1, <2>2, <2>3, <2>4 DEF Uart!uart_port_t
  <2> QED
    BY <1>2, <2>1, <2>3, <2>5, UartAnswerOnly DEF Uart!CallNames
<1> QED
  BY <1>1, <1>2

LEMMA UartPolls ==
  ASSUME Uart!UartAssumption, UartInv, NEW p \in Uart!PortIds,
         Uart!simulith_uart_available(p)
  PROVE  /\ UartInv'
         /\ \/ Uart!Device!Refuse(p)
            \/ uartResult'[2] \in Nat /\ Uart!Device!Answer(p, uartResult'[2])
<1>1. CASE ~ Uart!IsOpen(p)
  BY <1>1, UartRefuses DEF Uart!simulith_uart_available, Uart!CallNames
<1>2. CASE Uart!IsOpen(p)
  <2>1. Uart!bytes_available(p) = 0
    BY <1>2, UartEmpty DEF Uart!IsOpen
  <2>2. Uart!Return("available", p, 0, 0) /\ UNCHANGED <<uart_ports, uart_calls>>
    BY <1>2, <2>1 DEF Uart!simulith_uart_available
  <2> QED
    BY <1>2, <2>2, UartAnswerOnly DEF Uart!CallNames
<1> QED
  BY <1>1, <1>2

LEMMA UartLeaves ==
  ASSUME Uart!UartAssumption, UartInv, NEW r \in UartResults, Uart!CallbackReturns(r)
  PROVE  /\ UartInv'
         /\ uartResult'[2] \in Int /\ Uart!Device!Leave(uartResult'[2])
<1> DEFINE n == Len(uart_calls)
           frame == uart_calls[n]
<1>1. /\ uart_calls # << >> /\ Uart!Return("send", frame.port, frame.len, r)
      /\ uart_calls' = SubSeq(uart_calls, 1, n - 1)
      /\ uart_ports' = uart_ports
  BY DEF Uart!CallbackReturns
<1>2. uart_calls \in Seq(UartFrame) /\ n <= UartDepth
  BY DEF UartInv, Uart!TypeOK, UartFrame
<1>3. n \in Nat /\ n > 0 /\ n - 1 \in 0 .. n
  BY <1>1, <1>2, EmptySeq, LenProperties
<1>4. frame \in UartFrame
  BY <1>2, <1>3, ElementOfSeq
<1>5. uart_calls' \in Seq(UartFrame) /\ Len(uart_calls') = n - 1
  BY <1>1, <1>2, <1>3, PrefixProperties
<1> HIDE DEF n
<1>6. frame.port \in Uart!PortIds /\ frame.len \in UartLengths
  BY <1>4, UartPortIds DEF UartFrame
<1>7. uart_answer' \in UartAnswers /\ uartResult' = <<frame.port, r, NullPtr>>
  BY <1>1, <1>6, UartReturnType DEF Uart!CallNames
<1>8. n - 1 <= UartDepth
  BY <1>2, <1>3 DEF Uart!UartAssumption
<1>9. UartInv'
  BY <1>1, <1>5, <1>7, <1>8 DEF UartInv, UartAnswers, Uart!TypeOK, UartFrame
<1>10. /\ Frames(uart_calls) # << >>
       /\ Frames(uart_calls)' = SubSeq(Frames(uart_calls), 1, Len(Frames(uart_calls)) - 1)
       /\ Frames(uart_calls)[Len(Frames(uart_calls))].port = frame.port
  <2>1. Frames(uart_calls) # << >> /\ Len(Frames(uart_calls)) = n
    <3>1. /\ Len(Frames(uart_calls)) = Len(uart_calls)
          /\ Frames(uart_calls) = << >> <=> uart_calls = << >>
      BY <1>2, FramesType
    <3> QED
      BY <1>1, <3>1 DEF n
  <2>2. n \in 1 .. Len(uart_calls)
    BY <1>3 DEF n
  <2>3. Frames(uart_calls)[n] = Frame(frame)
    BY <1>2, <2>2, FramesType
  <2>4. Frames(uart_calls') = SubSeq(Frames(uart_calls), 1, Len(Frames(uart_calls)) - 1)
    BY <1>1, <1>2, FramesFront DEF n
  <2>5. Frames(uart_calls)' = Frames(uart_calls')
    BY DEF Frames, Frame
  <2> QED
    BY <2>1, <2>3, <2>4, <2>5 DEF Frame
<1>11. UNCHANGED <<uartOpen, uartAttached>>
  BY <1>1 DEF uartOpen, uartAttached
<1>12. r \in Int /\ uartResult'[2] = r
  BY <1>7 DEF Uart!UartAssumption
<1>13. Uart!Device!Leave(uartResult'[2])
  BY <1>7, <1>10, <1>11, <1>12
     DEF uartOpen, uartAttached, uartResult, Frames, Frame, Uart!Device!Leave
<1> QED
  BY <1>9, <1>12, <1>13

LEMMA UartDetaches ==
  ASSUME Uart!UartAssumption, UartInv, NEW p \in Uart!PortIds, Uart!simulith_uart_close(p)
  PROVE  UartInv' /\ (Uart!Device!Detach(p) \/ Uart!Device!Refuse(p))
<1>1. CASE ~ Uart!IsOpen(p)
  BY <1>1, UartRefuses DEF Uart!simulith_uart_close, Uart!CallNames
<1>2. CASE Uart!IsOpen(p)
  <2>1. /\ uart_ports' = [uart_ports EXCEPT ![p].initialized = FALSE]
        /\ Uart!Return("close", p, 0, 0) /\ uart_calls' = uart_calls
    BY <1>2 DEF Uart!simulith_uart_close
  <2>2. uart_ports \in [Uart!Ports -> Uart!uart_port_t] /\ p \in Uart!Ports
    BY <1>2 DEF UartInv, Uart!TypeOK, Uart!IsOpen
  <2>3. /\ uart_ports' \in [Uart!Ports -> Uart!uart_port_t]
        /\ \A q \in Uart!Ports :
             /\ uart_ports'[q].initialized = (IF q = p THEN FALSE ELSE uart_ports[q].initialized)
             /\ uart_ports'[q].rx_callback = uart_ports[q].rx_callback
             /\ uart_ports'[q].rx_buffer_head = uart_ports[q].rx_buffer_head
             /\ uart_ports'[q].rx_buffer_tail = uart_ports[q].rx_buffer_tail
    BY <2>1, <2>2 DEF Uart!uart_port_t
  <2>4. uart_answer' \in UartAnswers /\ uartResult' = <<p, 0, NullPtr>>
    BY <2>1, UartReturnType DEF Uart!CallNames
  <2>5. UartInv'
    BY <2>1, <2>3, <2>4 DEF UartInv, UartAnswers, Uart!TypeOK
  <2>6. uartOpen' = uartOpen \ {p} /\ p \in uartOpen /\ uartAttached' = uartAttached
    BY <1>2, <2>2, <2>3 DEF uartOpen, uartAttached, Uart!IsOpen
  <2>7. Uart!Device!Detach(p)
    BY <2>1, <2>4, <2>6 DEF uartOpen, uartAttached, uartResult, Uart!Device!Detach
  <2> QED
    BY <2>5, <2>7
<1> QED
  BY <1>1, <1>2

LEMMA UartNextRefines ==
  ASSUME Uart!UartAssumption, UartInv, [Uart!Next]_(Uart!vars)
  PROVE  UartInv' /\ [Uart!Device!Next]_(Uart!Device!vars)
<1>1. ASSUME NEW p \in Uart!PortIds, NEW config \in UartConfigs,
             NEW cb \in UartCallbacks \cup {NullPtr}, Uart!simulith_uart_init(p, config, cb)
      PROVE  UartInv' /\ Uart!Device!Next
  BY <1>1, UartAttaches DEF Uart!Device!Next
<1>2. ASSUME NEW p \in Uart!PortIds, NEW buffer \in BOOLEAN, NEW len \in UartLengths,
             Uart!simulith_uart_send(p, buffer, len)
      PROVE  UartInv' /\ Uart!Device!Next
  BY <1>2, UartSends DEF Uart!Device!Next, uartResult
<1>3. ASSUME NEW p \in Uart!PortIds, NEW buffer \in BOOLEAN, NEW len \in UartLengths,
             Uart!simulith_uart_receive(p, buffer, len)
      PROVE  UartInv' /\ Uart!Device!Next
  BY <1>3, UartReceives DEF Uart!Device!Next, uartResult
<1>4. ASSUME NEW p \in Uart!PortIds, Uart!simulith_uart_available(p)
      PROVE  UartInv' /\ Uart!Device!Next
  BY <1>4, UartPolls DEF Uart!Device!Next, uartResult
<1>5. ASSUME NEW p \in Uart!PortIds, Uart!simulith_uart_close(p)
      PROVE  UartInv' /\ Uart!Device!Next
  BY <1>5, UartDetaches DEF Uart!Device!Next
<1>6. ASSUME NEW r \in UartResults, Uart!CallbackReturns(r)
      PROVE  UartInv' /\ Uart!Device!Next
  BY <1>6, UartLeaves DEF Uart!Device!Next, uartResult
<1>7. CASE UNCHANGED Uart!vars
  BY <1>7 DEF Uart!vars, Uart!Device!vars, UartInv, Uart!TypeOK
<1> QED
  BY <1>1, <1>2, <1>3, <1>4, <1>5, <1>6, <1>7 DEF Uart!Next

LEMMA UartInvHolds ==
  ASSUME Uart!UartAssumption
  PROVE  Uart!Spec => []UartInv
<1>1. Uart!Init => UartInv
  BY UartInitRefines
<1>2. UartInv /\ [Uart!Next]_(Uart!vars) => UartInv'
  BY UartNextRefines
<1> QED
  BY <1>1, <1>2, PTL DEF Uart!Spec

\* UART: the table, its buffer indices included, and the answers keep their types.
THEOREM UartTypeCorrect ==
  ASSUME Uart!UartAssumption
  PROVE  Uart!Spec => []Uart!TypeOK
<1>1. UartInv => Uart!TypeOK
  BY DEF UartInv
<1> QED
  BY <1>1, UartInvHolds, PTL

\* UART: nothing is ever received by polling, whatever was sent to a port.
THEOREM UartPollsNothing ==
  ASSUME Uart!UartAssumption
  PROVE  Uart!Spec => []Uart!NothingToPoll
<1>1. UartInv => Uart!NothingToPoll
  BY UartEmpty DEF Uart!NothingToPoll
<1> QED
  BY <1>1, UartInvHolds, PTL

\* UART: what is sent reaches the callback of the init in force, whatever callbacks
\* do to the ports while they run, and each send returns what its own returned.
THEOREM UartImplements ==
  ASSUME Uart!UartAssumption
  PROVE  Uart!Spec => Uart!ImplementsDevicePort
<1>1. Uart!Init => UartInv /\ Uart!Device!Init
  BY UartInitRefines
<1>2. UartInv /\ [Uart!Next]_(Uart!vars) => UartInv' /\ [Uart!Device!Next]_(Uart!Device!vars)
  BY UartNextRefines
<1> QED
  BY <1>1, <1>2, PTL DEF Uart!Spec, Uart!ImplementsDevicePort, Uart!Device!Spec
=============================================================================
