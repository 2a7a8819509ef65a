--------------------------- MODULE UartLoadProofs ---------------------------
(***************************************************************************)
(* What the exit status of the UART loader means, for an image of any      *)
(* length, any block size, any number of header retransmissions and any    *)
(* losses of the line.                                                     *)
(***************************************************************************)
EXTENDS UartLoad, SequenceTheorems, TLAPS

UlMarkers == {"START", "+", "PASS", "FAIL", "HEADER FAIL", "READY", "PROMPT"}

ImageSymbols == UNION {ToSet(image) : image \in UlImages}

\* The symbols of the host-to-device line.
UlSymbols == ImageSymbols \cup {Magic, Size}

HostStates ==
    {"idle", "header", "wait start", "upload", "wait ack", "drain", "wait crc",
     "wait prompt", "exit 0", "exit 1", "error"}

HostTypeOK ==
    /\ ulImage \in UlImages
    /\ ulHost \in HostStates
    /\ ulPreload \in BOOLEAN
    /\ ulSent \in 0 .. Len(ulImage)
    /\ ulHeadersSent \in Nat

LineTypeOK ==
    /\ ulLost \in Nat /\ ulStalled \in BOOLEAN
    /\ ulToDevice \in Seq(UlSymbols) /\ ulToHost \in Seq(UlMarkers)

DeviceTypeOK ==
    /\ ulDevice \in {"magic", "size", "payload", "boot", "shell", "held"}
    /\ ulDdr \in Seq(UlSymbols)
    /\ ulReported \in SUBSET UlMarkers

UlTypeOK == HostTypeOK /\ LineTypeOK /\ DeviceTypeOK

UlBooted == ulDevice \in {"boot", "shell"}

\* A verdict on its way to the host was true and stays true: a loader that
\* boots takes no more symbols.
VerdictInv ==
    /\ UlBooted => ulDdr = ulImage
    /\ "PASS" \in ToSet(ulToHost) => UlBooted
    /\ ulHost \in {"wait prompt", "exit 0"} => UlBooted

\* The header was written at most once and nothing was lost so far.
UlClean == ulLost = 0 /\ ulHeadersSent <= 1

\* Nothing but the header was sent, and nothing answered.
HostWaits(states, line) ==
    /\ ulHost \in states
    /\ ulSent = 0 /\ ulToHost = <<>> /\ ulToDevice = line

\* The seven places of a clean transfer: no header yet, the header on the line,
\* half of it taken, its length refused, the payload under way, all of it in the
\* DDR, and a preloader stopped by its DDR.
Unsent ==
    /\ ulHeadersSent = 0 /\ ulDevice = "magic"
    /\ HostWaits({"idle", "header", "error"}, <<>>)

InMagic ==
    /\ ulHeadersSent = 1 /\ ulDevice = "magic"
    /\ HostWaits({"wait start", "header", "error"}, Header)

InSize ==
    /\ ulHeadersSent = 1 /\ ulDevice = "size"
    /\ HostWaits({"wait start", "header", "error"}, <<Size>>)

Refused ==
    /\ ulHeadersSent = 1 /\ ulDevice = "magic"
    /\ ulHost \in {"wait start", "header", "error"}
    /\ ulSent = 0 /\ ulToDevice = <<>> /\ "START" \notin ToSet(ulToHost)

InPayload ==
    /\ ulHeadersSent = 1 /\ ulDevice = "payload" /\ ulHost # "idle"
    /\ ulGood /\ ulExpect = Len(ulImage)
    /\ Len(ulDdr) < Len(ulImage)
    /\ ulDdr \o ulToDevice = SubSeq(ulImage, 1, ulSent)

Loaded ==
    /\ ulHeadersSent = 1 /\ UlBooted /\ ulHost # "idle"
    /\ ulSent = Len(ulImage) /\ ulToDevice = <<>>

Held == ulHeadersSent = 1 /\ ulDevice = "held" /\ ulHost # "idle"

\* A clean transfer is in one of them: in InPayload the image is split between
\* the DDR and the line, nothing missing and nothing twice.
TransferInv ==
    Unsent \/ InMagic \/ InSize \/ Refused \/ InPayload \/ Loaded \/ Held

UlAligned == Len(ulImage) % UlWord = 0

\* Nothing was rejected but the length, and then nothing was taken.
NotRejected ==
    /\ "FAIL" \notin ulReported
    /\ (IF UlAligned THEN "HEADER FAIL" ELSE "START") \notin ulReported

CleanInv ==
    UlClean => TransferInv /\ NotRejected

\* The inductive invariant.
UlInv == UlTypeOK /\ VerdictInv /\ CleanInv
------------------------------------------------------------------------------
(* Sequences of symbols and the sets of what they hold. *)

\* A line with symbols is not empty, and one without is.
LEMMA LineLength ==
    ASSUME NEW S, NEW s \in Seq(S)
    PROVE  Len(s) \in Nat /\ (Len(s) = 0 <=> s = <<>>)
  OBVIOUS

\* The header is two symbols of the line.
LEMMA TwoSymbols ==
    ASSUME NEW S, NEW a \in S, NEW b \in S
    PROVE  <<a, b>> \in Seq(S) /\ <<b>> \in Seq(S)
           /\ Head(<<a, b>>) = a /\ Tail(<<a, b>>) = <<b>>
           /\ Head(<<b>>) = b /\ Tail(<<b>>) = <<>>
  OBVIOUS

\* Nothing is on an empty line.
LEMMA EmptyLine == ToSet(<<>>) = {} /\ \A S : <<>> \in Seq(S)
  BY DEF ToSet

\* What is appended to a line is on it, and nothing else is added.
LEMMA ToSetConcat ==
    ASSUME NEW S, NEW s \in Seq(S), NEW t \in Seq(S)
    PROVE  s \o t \in Seq(S) /\ ToSet(s \o t) = ToSet(s) \cup ToSet(t)
  <1>1. /\ s \o t \in Seq(S)
        /\ Len(s \o t) = Len(s) + Len(t)
        /\ \A i \in 1 .. Len(s) + Len(t) :
               (s \o t)[i] = IF i <= Len(s) THEN s[i] ELSE t[i - Len(s)]
    BY ConcatProperties
  <1>2. /\ DOMAIN (s \o t) = 1 .. Len(s) + Len(t)
        /\ DOMAIN s = 1 .. Len(s) /\ DOMAIN t = 1 .. Len(t)
        /\ Len(s) \in Nat /\ Len(t) \in Nat
    BY <1>1, LenProperties
  <1>3. ASSUME NEW i \in 1 .. Len(s) + Len(t)
        PROVE  (s \o t)[i] \in ToSet(s) \cup ToSet(t)
    <2>1. CASE i <= Len(s)
      BY <1>1, <1>2, <1>3, <2>1 DEF ToSet
    <2>2. CASE ~(i <= Len(s))
      <3>1. i - Len(s) \in 1 .. Len(t) /\ (s \o t)[i] = t[i - Len(s)]
        BY <1>1, <1>2, <2>2
      <3> QED
        BY <1>2, <3>1 DEF ToSet
    <2> QED
      BY <2>1, <2>2
  <1>4. ASSUME NEW i \in 1 .. Len(s)
        PROVE  s[i] \in ToSet(s \o t)
    <2>1. i \in 1 .. Len(s) + Len(t) /\ (s \o t)[i] = s[i]
      BY <1>1, <1>2
    <2> QED
      BY <1>2, <2>1 DEF ToSet
  <1>5. ASSUME NEW i \in 1 .. Len(t)
        PROVE  t[i] \in ToSet(s \o t)
    <2>1. i + Len(s) \in 1 .. Len(s) + Len(t) /\ (s \o t)[i + Len(s)] = t[i]
      BY <1>1, <1>2
    <2> QED
      BY <1>2, <2>1 DEF ToSet
  <1> QED
    BY <1>1, <1>2, <1>3, <1>4, <1>5 DEF ToSet

\* A part of a line holds nothing the line does not.
LEMMA ToSetSubSeq ==
    ASSUME NEW S, NEW s \in Seq(S), NEW m \in 1 .. Len(s) + 1, NEW n \in 0 .. Len(s)
    PROVE  SubSeq(s, m, n) \in Seq(S) /\ ToSet(SubSeq(s, m, n)) \subseteq ToSet(s)
  <1>1. DOMAIN s = 1 .. Len(s) /\ Len(s) \in Nat /\ m \in Int /\ n \in Int
    BY LenProperties
  <1>2. \A i \in m .. n : s[i] \in S
    BY <1>1, ElementOfSeq
  <1>3. /\ SubSeq(s, m, n) \in Seq(S)
        /\ Len(SubSeq(s, m, n)) = IF m <= n THEN n - m + 1 ELSE 0
        /\ \A i \in 1 .. n - m + 1 : SubSeq(s, m, n)[i] = s[m + i - 1]
    BY <1>1, <1>2, SubSeqProperties
  <1>4. DOMAIN SubSeq(s, m, n) = 1 .. Len(SubSeq(s, m, n))
    BY <1>3, LenProperties
  <1>5. ASSUME NEW i \in DOMAIN SubSeq(s, m, n)
        PROVE  SubSeq(s, m, n)[i] \in ToSet(s)
    <2>1. i \in 1 .. n - m + 1 /\ m + i - 1 \in 1 .. Len(s)
      BY <1>1, <1>3, <1>4, <1>5
    <2> QED
      BY <1>1, <1>3, <2>1 DEF ToSet
  <1> QED
    BY <1>3, <1>5 DEF ToSet

\* A line that lost a symbol holds nothing new.
LEMMA ToSetRemoveAt ==
    ASSUME NEW S, NEW s \in Seq(S), NEW i \in DOMAIN s
    PROVE  RemoveAt(s, i) \in Seq(S) /\ ToSet(RemoveAt(s, i)) \subseteq ToSet(s)
  <1>1. i \in 1 .. Len(s) /\ Len(s) \in Nat
    BY LenProperties
  <1>2. /\ SubSeq(s, 1, i - 1) \in Seq(S) /\ ToSet(SubSeq(s, 1, i - 1)) \subseteq ToSet(s)
        /\ SubSeq(s, i + 1, Len(s)) \in Seq(S)
        /\ ToSet(SubSeq(s, i + 1, Len(s))) \subseteq ToSet(s)
    <2>1. 1 \in 1 .. Len(s) + 1 /\ i - 1 \in 0 .. Len(s) /\ i + 1 \in 1 .. Len(s) + 1
          /\ Len(s) \in 0 .. Len(s)
      BY <1>1
    <2> QED
      BY <2>1, ToSetSubSeq
  <1> DEFINE a == SubSeq(s, 1, i - 1)
             b == SubSeq(s, i + 1, Len(s))
  <1> HIDE DEF a, b
  <1>3. a \in Seq(S) /\ b \in Seq(S) /\ ToSet(a) \subseteq ToSet(s) /\ ToSet(b) \subseteq ToSet(s)
    BY <1>2 DEF a, b
  <1>4. a \o b \in Seq(S) /\ ToSet(a \o b) \subseteq ToSet(s)
    BY <1>3, ToSetConcat
  <1> QED
    BY <1>4 DEF RemoveAt, a, b

\* Reading the first symbol leaves the others.
LEMMA ToSetTail ==
    ASSUME NEW S, NEW s \in Seq(S), s # <<>>
    PROVE  Tail(s) \in Seq(S) /\ ToSet(Tail(s)) \subseteq ToSet(s) /\ Head(s) \in S
  <1>1. Tail(s) = SubSeq(s, 2, Len(s)) /\ Head(s) \in S
    BY TailIsSubSeq, HeadTailProperties
  <1>2. 2 \in 1 .. Len(s) + 1 /\ Len(s) \in 0 .. Len(s)
    OBVIOUS
  <1> QED
    BY <1>1, <1>2, ToSetSubSeq
------------------------------------------------------------------------------
(* Types and verdicts. *)

\* At power-up the line is empty and nothing was reported.
LEMMA UlInitially == UlInit => UlInv
  <1> SUFFICES ASSUME UlInit
               PROVE  UlInv
    OBVIOUS
  <1>1. HostTypeOK
    <2>1. ulImage \in UlImages /\ Len(ulImage) \in Nat
      BY UartAssumption DEF UlInit
    <2>2. 0 \in 0 .. Len(ulImage)
      BY <2>1
    <2> QED
      BY <2>1, <2>2 DEF UlInit, HostTypeOK, HostStates
  <1>2. LineTypeOK /\ DeviceTypeOK
    <2>1. <<>> \in Seq(UlSymbols) /\ <<>> \in Seq(UlMarkers)
      BY EmptyLine
    <2> QED
      BY <2>1 DEF UlInit, LineTypeOK, DeviceTypeOK
  <1>3. VerdictInv
    BY DEF UlInit, VerdictInv, UlBooted, ToSet
  <1>4. CleanInv
    BY DEF UlInit, CleanInv, TransferInv, Unsent, HostWaits, NotRejected
  <1> QED
    BY <1>1, <1>2, <1>3, <1>4 DEF UlInv, UlTypeOK

\* The image is made of symbols of the line.
LEMMA ImageTyped ==
    ASSUME UlTypeOK
    PROVE  /\ ulImage \in Seq(UlSymbols) /\ Len(ulImage) \in Nat \ {0}
           /\ Len(ulImage) \in UlLengths <=> UlAligned
  <1>1. /\ ulImage \in UlImages /\ ulImage \in Seq(ToSet(ulImage))
        /\ Len(ulImage) \in 1 .. MAX_IMAGE_BYTES /\ MAX_IMAGE_BYTES \in Nat
    BY UartAssumption DEF UlTypeOK, HostTypeOK
  <1>2. ToSet(ulImage) \subseteq UlSymbols
    BY <1>1 DEF UlSymbols, ImageSymbols
  <1>3. ulImage \in Seq(UlSymbols)
    BY <1>1, <1>2, SeqMonotonic
  <1> QED
    BY <1>1, <1>3 DEF UlLengths, UlAligned

\* The end of the next block lies in the image, at or after what was sent.
LEMMA BlockBounds ==
    ASSUME UlTypeOK
    PROVE  /\ Len(ulImage) \in Nat
           /\ BlockEnd \in 0 .. Len(ulImage) /\ ulSent <= BlockEnd
           /\ ulSent + 1 \in 1 .. Len(ulImage) + 1
  <1>1. Len(ulImage) \in Nat
    BY ImageTyped
  <1>2. ulSent \in 0 .. Len(ulImage) /\ BLOCK_BYTES \in Nat
    BY UartAssumption DEF UlTypeOK, HostTypeOK
  <1> QED
    BY <1>1, <1>2 DEF BlockEnd

\* What the device reports: markers, and their set grows by them.
LEMMA SendKeeps ==
    ASSUME UlTypeOK, NEW m \in Seq(UlMarkers), Send(m)
    PROVE  /\ ulToHost' \in Seq(UlMarkers) /\ ulReported' \in SUBSET UlMarkers
           /\ ToSet(ulToHost') = ToSet(ulToHost) \cup ToSet(m)
           /\ ulReported' = ulReported \cup ToSet(m)
  <1>1. ulToHost' \in Seq(UlMarkers) /\ ToSet(ulToHost') = ToSet(ulToHost) \cup ToSet(m)
    BY ToSetConcat DEF UlTypeOK, LineTypeOK, Send
  <1>2. ToSet(m) \subseteq UlMarkers
    BY ElementOfSeq, LenProperties DEF ToSet
  <1> QED
    BY <1>1, <1>2 DEF UlTypeOK, DeviceTypeOK, Send

\* One read of the host consumes a part of what arrived, and goes on only with
\* a marker that is none of failure.
LEMMA ReadKeeps ==
    ASSUME UlTypeOK, NEW state, NEW markers, NEW failures, NEW next,
           ReadUntil(state, markers, failures, next)
    PROVE  /\ ulToHost # <<>>
           /\ ulToHost' \in Seq(UlMarkers) /\ ToSet(ulToHost') \subseteq ToSet(ulToHost)
           /\ ulHost = state
           /\ \/ ulHost' = state
              \/ ulHost' = "exit 1" /\ \E x \in failures : x \in ToSet(ulToHost)
              \/ /\ ulHost' = next
                 /\ \E x \in markers : x \in ToSet(ulToHost) /\ x \notin failures
           /\ UNCHANGED <<ulImage, ulPreload, ulSent, ulHeadersSent, ulToDevice, ulLost, ulStalled>>
           /\ UNCHANGED <<ulDevice, ulDdr, ulExpect, ulGood, ulReported>>
  <1>1. PICK n \in 1 .. Len(ulToHost) :
            LET block == ToSet(SubSeq(ulToHost, 1, n))
            IN  /\ ulHost' = IF block \cap markers = {} THEN state
                             ELSE IF block \cap failures # {} THEN "exit 1" ELSE next
                /\ ulToHost' = SubSeq(ulToHost, n + 1, Len(ulToHost))
    BY DEF ReadUntil
  <1> DEFINE block == ToSet(SubSeq(ulToHost, 1, n))
  <1>2. /\ n \in 0 .. Len(ulToHost) /\ n + 1 \in 1 .. Len(ulToHost) + 1
        /\ Len(ulToHost) \in 0 .. Len(ulToHost) /\ 1 \in 1 .. Len(ulToHost) + 1
        /\ Len(ulToHost) # 0
    <2>1. Len(ulToHost) \in Nat
      BY LineLength DEF UlTypeOK, LineTypeOK
    <2> QED
      BY <2>1
  <1>3. block \subseteq ToSet(ulToHost)
    BY <1>2, ToSetSubSeq DEF UlTypeOK, LineTypeOK
  <1>4. ulToHost' \in Seq(UlMarkers) /\ ToSet(ulToHost') \subseteq ToSet(ulToHost)
    BY <1>1, <1>2, ToSetSubSeq DEF UlTypeOK, LineTypeOK
  <1>5. ulToHost # <<>>
    BY <1>2, LineLength DEF UlTypeOK, LineTypeOK
  <1> HIDE DEF block
  <1>6. ulHost' = IF block \cap markers = {} THEN state
                  ELSE IF block \cap failures # {} THEN "exit 1" ELSE next
    BY <1>1 DEF block
  <1>7. \/ ulHost' = state
        \/ ulHost' = "exit 1" /\ \E x \in failures : x \in ToSet(ulToHost)
        \/ /\ ulHost' = next
           /\ \E x \in markers : x \in ToSet(ulToHost) /\ x \notin failures
    BY <1>3, <1>6
  <1> QED
    BY <1>4, <1>5, <1>7 DEF ReadUntil, lineVars, deviceVars

UlRead == UlAwaitStart \/ UlAwaitCrc \/ UlAwaitPrompt

\* The three reads of the host, and what each goes on with.
LEMMA HostReads ==
    ASSUME UlTypeOK, UlRead
    PROVE  /\ ulToHost # <<>>
           /\ ulToHost' \in Seq(UlMarkers) /\ ToSet(ulToHost') \subseteq ToSet(ulToHost)
           /\ \/ ulHost' = ulHost
              \/ ulHost = "wait crc" /\ ulHost' = "exit 1"
              \/ ulHost = "wait start" /\ ulHost' = "upload" /\ "START" \in ToSet(ulToHost)
              \/ ulHost = "wait crc" /\ ulHost' = "wait prompt" /\ "PASS" \in ToSet(ulToHost)
              \/ ulHost = "wait prompt" /\ ulHost' = "exit 0"
           /\ UNCHANGED <<ulImage, ulPreload, ulSent, ulHeadersSent, ulToDevice, ulLost, ulStalled>>
           /\ UNCHANGED <<ulDevice, ulDdr, ulExpect, ulGood, ulReported>>
  <1> DEFINE Consumed ==
          /\ ulToHost # <<>>
          /\ ulToHost' \in Seq(UlMarkers) /\ ToSet(ulToHost') \subseteq ToSet(ulToHost)
          /\ UNCHANGED <<ulImage, ulPreload, ulSent, ulHeadersSent, ulToDevice, ulLost, ulStalled>>
          /\ UNCHANGED <<ulDevice, ulDdr, ulExpect, ulGood, ulReported>>
      Moved(state, markers, failures, next) ==
          /\ ulHost = state
          /\ \/ ulHost' = state
             \/ ulHost' = "exit 1" /\ \E x \in failures : x \in ToSet(ulToHost)
             \/ /\ ulHost' = next
                /\ \E x \in markers : x \in ToSet(ulToHost) /\ x \notin failures
  <1>1. CASE UlAwaitStart
    <2> DEFINE markers == {"START"}
               failures == {}
    <2>1. ReadUntil("wait start", markers, failures, "upload")
      BY <1>1 DEF UlAwaitStart
    <2>2. markers = {"START"} /\ failures = {}
      OBVIOUS
    <2> HIDE DEF markers, failures
    <2>3. Consumed /\ Moved("wait start", markers, failures, "upload")
      BY <2>1, ReadKeeps, Zenon
    <2> QED
      BY <2>2, <2>3
  <1>2. CASE UlAwaitCrc
    <2> DEFINE markers == {"PASS", "FAIL"}
               failures == {"FAIL"}
    <2>1. ReadUntil("wait crc", markers, failures, "wait prompt")
      BY <1>2 DEF UlAwaitCrc
    <2>2. markers = {"PASS", "FAIL"} /\ failures = {"FAIL"}
      OBVIOUS
    <2> HIDE DEF markers, failures
    <2>3. Consumed /\ Moved("wait crc", markers, failures, "wait prompt")
      BY <2>1, ReadKeeps, Zenon
    <2> QED
      BY <2>2, <2>3
  <1>3. CASE UlAwaitPrompt
    <2> DEFINE markers == {"PROMPT"}
               failures == {}
    <2>1. ReadUntil("wait prompt", markers, failures, "exit 0")
      BY <1>3 DEF UlAwaitPrompt
    <2>2. markers = {"PROMPT"} /\ failures = {}
      OBVIOUS
    <2> HIDE DEF markers, failures
    <2>3. Consumed /\ Moved("wait prompt", markers, failures, "exit 0")
      BY <2>1, ReadKeeps, Zenon
    <2> QED
      BY <2>2, <2>3
  <1> QED
    BY <1>1, <1>2, <1>3 DEF UlRead

UlHostNext == (\E preload \in BOOLEAN : UlStart(preload)) \/ UlHostStep

\* A step of the host keeps the types, and leaves the device and what it
\* reported alone.
LEMMA HostTypes ==
    ASSUME UlTypeOK, UlHostNext
    PROVE  /\ UlTypeOK'
           /\ UNCHANGED <<ulImage, ulDevice, ulDdr, ulExpect, ulGood, ulReported, ulLost>>
           /\ ToSet(ulToHost') \subseteq ToSet(ulToHost)
  <1> DEFINE Kept == /\ UNCHANGED <<ulImage, ulLost, ulStalled>>
                     /\ UNCHANGED <<ulDevice, ulDdr, ulExpect, ulGood, ulReported>>
  <1>1. CASE \E preload \in BOOLEAN : UlStart(preload)
    BY <1>1
       DEF UlStart, lineVars, deviceVars, UlTypeOK, HostTypeOK, LineTypeOK, DeviceTypeOK,
           HostStates
  <1>2. CASE UlSendHeader
    <2>1. ulToDevice' \in Seq(UlSymbols)
      <3>1. Header \in Seq(UlSymbols)
        <4>1. Magic \in UlSymbols /\ Size \in UlSymbols
          BY DEF UlSymbols
        <4> QED
          BY <4>1, TwoSymbols DEF Header
      <3> QED
        BY <1>2, <3>1, ToSetConcat DEF UlSendHeader, UlTypeOK, LineTypeOK
    <2>2. Kept /\ UNCHANGED <<ulToHost, ulPreload, ulSent>> /\ ulHost' = "wait start"
      BY <1>2 DEF UlSendHeader, lineVars, deviceVars
    <2>3. HostTypeOK'
      <3>1. ulHeadersSent' \in Nat
        <4>1. ulHeadersSent \in Nat
          BY DEF UlTypeOK, HostTypeOK
        <4>2. ulHeadersSent' = ulHeadersSent + 1
          BY <1>2 DEF UlSendHeader
        <4> QED
          BY <4>1, <4>2
      <3>2. ulHost' \in HostStates
        BY <2>2 DEF HostStates
      <3> QED
        BY <2>2, <3>1, <3>2, Zenon DEF UlTypeOK, HostTypeOK
    <2> QED
      BY <2>1, <2>2, <2>3 DEF UlTypeOK, LineTypeOK, DeviceTypeOK
  <1>3. CASE UlHeaderTimeout \/ UlDrain \/ UlTimeout
    <2>1. ulHost' \in HostStates
          /\ UNCHANGED <<ulPreload, ulSent, ulHeadersSent, ulToDevice, ulToHost>> /\ Kept
      BY <1>3 DEF UlHeaderTimeout, UlDrain, UlTimeout, HostStates, lineVars, deviceVars
    <2> QED
      BY <2>1 DEF UlTypeOK, HostTypeOK, LineTypeOK, DeviceTypeOK
  <1>4. CASE UlRead
    <2>1. ulHost' \in HostStates
      BY <1>4, HostReads DEF HostStates, UlTypeOK, HostTypeOK
    <2> QED
      BY <1>4, <2>1, HostReads DEF UlTypeOK, HostTypeOK, LineTypeOK, DeviceTypeOK
  <1>5. CASE UlSendBlock
    <2>1. SubSeq(ulImage, ulSent + 1, BlockEnd) \in Seq(UlSymbols)
      BY BlockBounds, ImageTyped, ToSetSubSeq
    <2>2. ulToDevice' \in Seq(UlSymbols)
      BY <1>5, <2>1, ToSetConcat DEF UlSendBlock, UlTypeOK, LineTypeOK
    <2>3. ulHost' \in HostStates /\ ulSent' = BlockEnd
          /\ UNCHANGED <<ulPreload, ulHeadersSent, ulToHost>> /\ Kept
      BY <1>5 DEF UlSendBlock, HostStates, lineVars, deviceVars
    <2> QED
      BY <2>2, <2>3, BlockBounds DEF UlTypeOK, HostTypeOK, LineTypeOK, DeviceTypeOK
  <1>6. CASE UlAwaitAck
    <2>1. ulToHost' \in Seq(UlMarkers) /\ ToSet(ulToHost') \subseteq ToSet(ulToHost)
      BY <1>6, ToSetTail DEF UlAwaitAck, UlTypeOK, LineTypeOK
    <2>2. ulHost' \in HostStates
          /\ UNCHANGED <<ulPreload, ulSent, ulHeadersSent, ulToDevice>> /\ Kept
      BY <1>6 DEF UlAwaitAck, HostStates, lineVars, deviceVars
    <2> QED
      BY <2>1, <2>2 DEF UlTypeOK, HostTypeOK, LineTypeOK, DeviceTypeOK
  <1> QED
    BY <1>1, <1>2, <1>3, <1>4, <1>5, <1>6 DEF UlHostNext, UlHostStep, UlRead

\* A host that goes on after the CRC has read a verdict, and it was PASS.
LEMMA HostVerdict ==
    ASSUME UlTypeOK, VerdictInv, UlHostNext
    PROVE  VerdictInv'
  <1>1. UNCHANGED <<ulImage, ulDevice, ulDdr>> /\ ToSet(ulToHost') \subseteq ToSet(ulToHost)
    BY HostTypes
  <1>2. ulHost' \in {"wait prompt", "exit 0"} => UlBooted
    <2>1. CASE UlRead
      BY <2>1, HostReads DEF VerdictInv
    <2>2. CASE \/ UlSendHeader \/ UlHeaderTimeout \/ UlSendBlock \/ UlAwaitAck \/ UlDrain
               \/ UlTimeout
               \/ \E preload \in BOOLEAN : UlStart(preload)
      BY <2>2
         DEF UlSendHeader, UlHeaderTimeout, UlSendBlock, UlAwaitAck, UlDrain, UlTimeout, UlStart
    <2> QED
      BY <2>1, <2>2 DEF UlHostNext, UlHostStep, UlRead
  <1> QED
    BY <1>1, <1>2 DEF VerdictInv, UlBooted

\* A loss takes a symbol away and adds none.
LEMMA LoseKeeps ==
    ASSUME UlTypeOK, VerdictInv, UlLose
    PROVE  UlTypeOK' /\ VerdictInv' /\ ulLost' # 0
  <1>1. /\ UNCHANGED <<ulImage, ulHost, ulPreload, ulSent, ulHeadersSent, ulStalled>>
        /\ UNCHANGED <<ulDevice, ulDdr, ulExpect, ulGood, ulReported>>
        /\ ulLost' = ulLost + 1
    BY DEF UlLose, deviceVars
  <1>2. /\ ulToDevice' \in Seq(UlSymbols) /\ ulToHost' \in Seq(UlMarkers)
        /\ ToSet(ulToHost') \subseteq ToSet(ulToHost)
    <2>1. CASE \E i \in DOMAIN ulToDevice :
                   ulToDevice' = RemoveAt(ulToDevice, i) /\ UNCHANGED ulToHost
      BY <2>1, ToSetRemoveAt DEF UlTypeOK, LineTypeOK
    <2>2. CASE \E i \in DOMAIN ulToHost :
                   ulToHost' = RemoveAt(ulToHost, i) /\ UNCHANGED ulToDevice
      BY <2>2, ToSetRemoveAt DEF UlTypeOK, LineTypeOK
    <2> QED
      BY <2>1, <2>2 DEF UlLose
  <1>3. ulLost' \in Nat /\ ulLost' # 0
    BY <1>1 DEF UlTypeOK, LineTypeOK
  <1> QED
    BY <1>1, <1>2, <1>3 DEF UlTypeOK, HostTypeOK, LineTypeOK, DeviceTypeOK, VerdictInv, UlBooted
------------------------------------------------------------------------------
(* The loader stage. *)

\* Reports of one and two markers.
LEMMA Reports ==
    ASSUME NEW a \in UlMarkers, NEW b \in UlMarkers
    PROVE  /\ <<>> \in Seq(UlMarkers) /\ ToSet(<<>>) = {}
           /\ <<a>> \in Seq(UlMarkers) /\ ToSet(<<a>>) = {a}
           /\ <<a, b>> \in Seq(UlMarkers) /\ ToSet(<<a, b>>) = {a, b}
  <1>1. <<a>> \in Seq(UlMarkers) /\ <<a, b>> \in Seq(UlMarkers) /\ <<>> \in Seq(UlMarkers)
    BY TwoSymbols
  <1>2. /\ DOMAIN <<>> = {} /\ DOMAIN <<a>> = {1} /\ DOMAIN <<a, b>> = {1, 2}
        /\ <<a>>[1] = a /\ <<a, b>>[1] = a /\ <<a, b>>[2] = b
    OBVIOUS
  <1> QED
    BY <1>1, <1>2 DEF ToSet

\* A received symbol leaves the line; the host does nothing.
LEMMA Received ==
    ASSUME UlTypeOK, Receive
    PROVE  /\ ulToDevice # <<>> /\ Head(ulToDevice) \in UlSymbols
           /\ ulToDevice' = Tail(ulToDevice) /\ ulToDevice' \in Seq(UlSymbols)
           /\ UNCHANGED <<ulImage, ulHost, ulPreload, ulSent, ulHeadersSent, ulLost, ulStalled>>
  BY ToSetTail DEF UlTypeOK, LineTypeOK, Receive, hostVars

\* A rejected header is reported, or ignored by the hardware preloader.
LEMMA Rejected ==
    ASSUME UlTypeOK, RejectHeader
    PROVE  /\ ulDevice' = "magic"
           /\ ulToHost' \in Seq(UlMarkers) /\ ulReported' \in SUBSET UlMarkers
           /\ ToSet(ulToHost') \subseteq ToSet(ulToHost) \cup {"HEADER FAIL", "READY"}
           /\ ulReported' \subseteq ulReported \cup {"HEADER FAIL", "READY"}
  <1>1. CASE ulPreload
    BY <1>1 DEF RejectHeader, UlTypeOK, LineTypeOK, DeviceTypeOK
  <1>2. CASE ~ulPreload
    <2> DEFINE m == <<"HEADER FAIL", "READY">>
    <2>1. m \in Seq(UlMarkers) /\ ToSet(m) = {"HEADER FAIL", "READY"}
      BY Reports DEF UlMarkers
    <2>2. Send(m) /\ ulDevice' = "magic"
      BY <1>2 DEF RejectHeader
    <2> HIDE DEF m
    <2>3. /\ ulToHost' \in Seq(UlMarkers) /\ ulReported' \in SUBSET UlMarkers
          /\ ToSet(ulToHost') = ToSet(ulToHost) \cup ToSet(m)
          /\ ulReported' = ulReported \cup ToSet(m)
      BY <2>1, <2>2, SendKeeps
    <2> QED
      BY <2>1, <2>2, <2>3
  <1> QED
    BY <1>1, <1>2

\* What a payload symbol leads to: the next one, the boot of the image, or the
\* rejection of anything else.
LEMMA Payload ==
    ASSUME UlTypeOK, UlDevicePayload
    PROVE  /\ ulDevice = "payload" /\ ulToDevice # <<>>
           /\ ulDdr' = Append(ulDdr, Head(ulToDevice)) /\ ulDdr' \in Seq(UlSymbols)
           /\ UNCHANGED <<ulExpect, ulGood>>
           /\ \E m \in Seq(UlMarkers) :
                /\ Send(m)
                /\ \/ /\ Len(ulDdr') # ulExpect /\ ulDevice' = "payload"
                      /\ ToSet(m) \subseteq {"+"}
                   \/ /\ Len(ulDdr') = ulExpect /\ ulDdr' = ulImage /\ ulDevice' = "boot"
                      /\ ToSet(m) \subseteq {"+", "PASS"}
                   \/ /\ Len(ulDdr') = ulExpect /\ ~(ulGood /\ ulDdr' = ulImage)
                      /\ ulDevice' \in {"held", "magic"} /\ "PASS" \notin ToSet(m)
  <1> DEFINE last == Len(ulDdr') = ulExpect
             ack == IF ~ulPreload /\ (last \/ Len(ulDdr') % BLOCK_BYTES = 0)
                    THEN <<"+">> ELSE <<>>
             passed == ulGood /\ ulDdr' = ulImage
  <1>1. /\ ulDevice = "payload" /\ Receive /\ UNCHANGED <<ulExpect, ulGood>>
        /\ ulDdr' = Append(ulDdr, Head(ulToDevice))
    BY DEF UlDevicePayload
  <1>2. ulDdr' \in Seq(UlSymbols)
    BY <1>1, Received, AppendProperties DEF UlTypeOK, DeviceTypeOK
  <1>3. IF ~last THEN ulDevice' = "payload" /\ Send(ack)
        ELSE IF passed THEN ulDevice' = "boot" /\ Send(Append(ack, "PASS"))
        ELSE IF ulPreload THEN ulDevice' = "held" /\ Send(<<"FAIL">>)
        ELSE ulDevice' = "magic" /\ Send(ack \o <<"FAIL", "READY">>)
    BY DEF UlDevicePayload
  <1>4. ack \in Seq(UlMarkers) /\ ToSet(ack) \subseteq {"+"}
    <2>1. "+" \in UlMarkers
      BY DEF UlMarkers
    <2> QED
      BY <2>1, Reports
  <1> HIDE DEF ack, last, passed
  <1>5. CASE ~last
    BY <1>1, <1>2, <1>3, <1>4, <1>5, Received DEF last
  <1>6. CASE last /\ passed
    <2> DEFINE m == Append(ack, "PASS")
    <2>1. "PASS" \in UlMarkers
      BY DEF UlMarkers
    <2> DEFINE t == <<"PASS">>
    <2>2. t \in Seq(UlMarkers) /\ ToSet(t) = {"PASS"}
      BY <2>1, Reports
    <2>3. m = ack \o t
      BY <1>4, <2>1, AppendIsConcat
    <2> HIDE DEF m, t
    <2>4. m \in Seq(UlMarkers) /\ ToSet(m) \subseteq {"+", "PASS"}
      BY <1>4, <2>2, <2>3, ToSetConcat
    <2>5. Send(m) /\ ulDevice' = "boot"
      BY <1>3, <1>6 DEF m
    <2> QED
      BY <1>1, <1>2, <1>6, <2>4, <2>5, Received DEF last, passed
  <1>7. CASE last /\ ~passed
    <2> DEFINE m == IF ulPreload THEN <<"FAIL">> ELSE ack \o <<"FAIL", "READY">>
    <2>1. "FAIL" \in UlMarkers /\ "READY" \in UlMarkers
      BY DEF UlMarkers
    <2> DEFINE t == <<"FAIL", "READY">>
    <2>2. /\ <<"FAIL">> \in Seq(UlMarkers) /\ ToSet(<<"FAIL">>) = {"FAIL"}
          /\ t \in Seq(UlMarkers) /\ ToSet(t) = {"FAIL", "READY"}
      BY <2>1, Reports
    <2>3. Send(m) /\ ulDevice' \in {"held", "magic"}
      BY <1>3, <1>7
    <2>4. m = IF ulPreload THEN <<"FAIL">> ELSE ack \o t
      OBVIOUS
    <2> HIDE DEF m, t
    <2>5. ack \o t \in Seq(UlMarkers) /\ ToSet(ack \o t) = ToSet(ack) \cup ToSet(t)
      BY <1>4, <2>2, ToSetConcat
    <2>6. m \in Seq(UlMarkers) /\ "PASS" \notin ToSet(m)
      BY <1>4, <2>2, <2>4, <2>5
    <2> QED
      BY <1>1, <1>2, <1>7, <2>3, <2>6, Received DEF last, passed
  <1> QED
    BY <1>5, <1>6, <1>7

UlDeviceNext ==
    UlDeviceMagic \/ UlDeviceSize \/ UlDevicePayload \/ UlDdrTimeout \/ UlDeviceBoot

\* The device sends PASS only when it boots the image, and a device that
\* boots receives nothing more.
LEMMA DeviceVerdict ==
    ASSUME UlTypeOK, VerdictInv, UlDeviceNext
    PROVE  UlTypeOK' /\ VerdictInv' /\ UNCHANGED <<ulImage, ulHost, ulSent, ulHeadersSent, ulLost>>
  <1>1. CASE UlDeviceMagic
    <2>1. ulDevice = "magic" /\ Receive /\ UNCHANGED ulDdr
      BY <1>1 DEF UlDeviceMagic
    <2>2. \/ ulDevice' = "size" /\ UNCHANGED <<ulToHost, ulReported>>
          \/ RejectHeader
      BY <1>1 DEF UlDeviceMagic
    <2>3. /\ ulDevice' \in {"size", "magic"}
          /\ ulToHost' \in Seq(UlMarkers) /\ ulReported' \in SUBSET UlMarkers
          /\ "PASS" \in ToSet(ulToHost') => "PASS" \in ToSet(ulToHost)
      BY <2>2, Rejected DEF UlTypeOK, LineTypeOK, DeviceTypeOK
    <2> QED
      BY <2>1, <2>3, Received
         DEF UlTypeOK, HostTypeOK, LineTypeOK, DeviceTypeOK, VerdictInv, UlBooted
  <1>2. CASE UlDeviceSize
    <2>1. ulDevice = "size" /\ Receive
      BY <1>2 DEF UlDeviceSize
    <2>2. \/ RejectHeader /\ UNCHANGED ulDdr
          \/ ulDevice' = "payload" /\ ulDdr' = <<>> /\ Send(<<"START">>)
      BY <1>2 DEF UlDeviceSize
    <2>3. /\ ulDevice' \in {"payload", "magic"} /\ ulDdr' \in Seq(UlSymbols)
          /\ ulToHost' \in Seq(UlMarkers) /\ ulReported' \in SUBSET UlMarkers
          /\ "PASS" \in ToSet(ulToHost') => "PASS" \in ToSet(ulToHost)
      <3>1. CASE RejectHeader /\ UNCHANGED ulDdr
        BY <3>1, Rejected DEF UlTypeOK, DeviceTypeOK
      <3>2. CASE ulDevice' = "payload" /\ ulDdr' = <<>> /\ Send(<<"START">>)
        <4> DEFINE m == <<"START">>
        <4>1. m \in Seq(UlMarkers) /\ ToSet(m) = {"START"}
          BY Reports DEF UlMarkers
        <4>2. Send(m)
          BY <3>2
        <4> HIDE DEF m
        <4>3. /\ ulToHost' \in Seq(UlMarkers) /\ ulReported' \in SUBSET UlMarkers
              /\ ToSet(ulToHost') = ToSet(ulToHost) \cup ToSet(m)
          BY <4>1, <4>2, SendKeeps
        <4> QED
          BY <3>2, <4>1, <4>3
      <3> QED
        BY <2>2, <3>1, <3>2
    <2> QED
      BY <2>1, <2>3, Received
         DEF UlTypeOK, HostTypeOK, LineTypeOK, DeviceTypeOK, VerdictInv, UlBooted
  <1>3. CASE UlDevicePayload
    <2>1. Receive /\ ulDevice = "payload" /\ ulDdr' \in Seq(UlSymbols)
      BY <1>3, Payload DEF UlDevicePayload
    <2>2. PICK m \in Seq(UlMarkers) :
              /\ Send(m)
              /\ \/ ulDdr' = ulImage /\ ulDevice' = "boot"
                 \/ ulDevice' \in {"payload", "held", "magic"} /\ "PASS" \notin ToSet(m)
      BY <1>3, Payload
    <2>3. /\ ulToHost' \in Seq(UlMarkers) /\ ulReported' \in SUBSET UlMarkers
          /\ ToSet(ulToHost') = ToSet(ulToHost) \cup ToSet(m)
      BY <2>2, SendKeeps
    <2>4. UlTypeOK' /\ UNCHANGED <<ulImage, ulHost, ulSent, ulHeadersSent, ulLost>>
      BY <2>1, <2>2, <2>3, Received DEF UlTypeOK, HostTypeOK, LineTypeOK, DeviceTypeOK
    <2>5. VerdictInv'
      BY <2>1, <2>2, <2>3, <2>4 DEF VerdictInv, UlBooted
    <2> QED
      BY <2>4, <2>5
  <1>4. CASE UlDeviceBoot
    <2> DEFINE m == <<"PROMPT">>
    <2>1. m \in Seq(UlMarkers) /\ ToSet(m) = {"PROMPT"}
      BY Reports DEF UlMarkers
    <2>2. /\ ulDevice = "boot" /\ ulDevice' = "shell" /\ Send(m)
          /\ UNCHANGED <<ulToDevice, ulDdr>>
          /\ UNCHANGED <<ulImage, ulHost, ulPreload, ulSent, ulHeadersSent, ulLost, ulStalled>>
      BY <1>4 DEF UlDeviceBoot, hostVars
    <2> HIDE DEF m
    <2>3. /\ ulToHost' \in Seq(UlMarkers) /\ ulReported' \in SUBSET UlMarkers
          /\ ToSet(ulToHost') = ToSet(ulToHost) \cup ToSet(m)
      BY <2>1, <2>2, SendKeeps
    <2> QED
      BY <2>1, <2>2, <2>3
         DEF UlTypeOK, HostTypeOK, LineTypeOK, DeviceTypeOK, VerdictInv, UlBooted
  <1>5. CASE UlDdrTimeout
    <2>1. /\ ulDevice = "payload" /\ Receive /\ ulDevice' = "held"
          /\ UNCHANGED <<ulToHost, ulDdr, ulReported>>
      BY <1>5 DEF UlDdrTimeout
    <2> QED
      BY <2>1, Received
         DEF UlTypeOK, HostTypeOK, LineTypeOK, DeviceTypeOK, VerdictInv, UlBooted
  <1> QED
    BY <1>1, <1>2, <1>3, <1>4, <1>5 DEF UlDeviceNext
------------------------------------------------------------------------------
(* A clean transfer. *)

\* Lines may be joined in either order.
LEMMA LinesAssociative ==
    ASSUME NEW S
    PROVE  \A x, y, z \in Seq(S) : (x \o y) \o z = x \o (y \o z)
  BY ConcatAssociative

\* The next block of the image continues what was sent.
LEMMA BlockContinues ==
    \A image, d, line \in Seq(UlSymbols) : \A k, n \in 0 .. Len(image) :
        k <= n /\ d \o line = SubSeq(image, 1, k) =>
            d \o (line \o SubSeq(image, k + 1, n)) = SubSeq(image, 1, n)
  <1> TAKE image, d, line \in Seq(UlSymbols)
  <1> TAKE k, n \in 0 .. Len(image)
  <1> SUFFICES ASSUME k <= n
               PROVE  d \o line = SubSeq(image, 1, k) =>
                          d \o (line \o SubSeq(image, k + 1, n)) = SubSeq(image, 1, n)
    OBVIOUS
  <1> DEFINE b == SubSeq(image, k + 1, n)
  <1>1. k + 1 \in 1 .. Len(image) + 1 /\ k \in 0 .. Len(image) /\ n \in k .. Len(image)
        /\ 1 \in 1 .. Len(image) + 1 /\ n \in 0 .. Len(image)
    BY LineLength
  <1>2. b \in Seq(UlSymbols)
    BY <1>1, ToSetSubSeq
  <1>3. SubSeq(image, 1, k) \o b = SubSeq(image, 1, n)
    BY <1>1, ConcatAdjacentSubSeq
  <1> HIDE DEF b
  <1>4. (d \o line) \o b = d \o (line \o b)
    BY <1>2, LinesAssociative
  <1> QED
    BY <1>3, <1>4 DEF b

\* A received symbol moves from the line to the DDR; with the last one the DDR
\* holds the image and the line nothing.
LEMMA SymbolMoves ==
    \A image, d, line \in Seq(UlSymbols) : \A k \in 0 .. Len(image) :
        /\ line # <<>> /\ Len(d) < Len(image)
        /\ d \o line = SubSeq(image, 1, k)
        => /\ Append(d, Head(line)) \o Tail(line) = SubSeq(image, 1, k)
           /\ Len(Append(d, Head(line))) <= Len(image)
           /\ Len(Append(d, Head(line))) = Len(image) =>
                  Append(d, Head(line)) = image /\ Tail(line) = <<>> /\ k = Len(image)
  <1> TAKE image, d, line \in Seq(UlSymbols)
  <1> TAKE k \in 0 .. Len(image)
  <1> DEFINE h == Head(line)
             t == Tail(line)
             e == Append(d, h)
  <1> SUFFICES ASSUME line # <<>>, Len(d) < Len(image)
               PROVE  d \o line = SubSeq(image, 1, k) =>
                        /\ e \o t = SubSeq(image, 1, k)
                        /\ Len(e) <= Len(image)
                        /\ Len(e) = Len(image) => e = image /\ t = <<>> /\ k = Len(image)
    BY Zenon
  <1>1. h \in UlSymbols /\ t \in Seq(UlSymbols) /\ line = <<h>> \o t
    BY HeadTailProperties, ToSetTail
  <1> HIDE DEF h, t
  <1>2. <<h>> \in Seq(UlSymbols) /\ e = d \o <<h>> /\ e \in Seq(UlSymbols) /\ Len(e) = Len(d) + 1
    BY <1>1, AppendIsConcat, AppendProperties
  <1>3. (d \o <<h>>) \o t = d \o (<<h>> \o t)
    BY <1>1, <1>2, ConcatAssociative
  <1> HAVE d \o line = SubSeq(image, 1, k)
  <1> HIDE DEF e
  <1>4. e \o t = SubSeq(image, 1, k)
    BY <1>1, <1>2, <1>3
  <1>5. Len(image) \in Nat /\ Len(d) \in Nat /\ Len(t) \in Nat /\ k \in Nat
    BY <1>1, LineLength
  <1>6. Len(e) <= Len(image)
    BY <1>2, <1>5
  <1>7. Len(SubSeq(image, 1, k)) = k
    BY <1>5, SubSeqProperties, ElementOfSeq
  <1>8. Len(e) + Len(t) = k
    BY <1>1, <1>2, <1>4, <1>7, ConcatProperties
  <1>9. ASSUME Len(e) = Len(image)
        PROVE  e = image /\ t = <<>> /\ k = Len(image)
    <2>1. Len(t) = 0 /\ k = Len(image)
      BY <1>5, <1>8, <1>9
    <2>2. t = <<>>
      BY <1>1, <2>1, LineLength
    <2>3. e \o t = e
      BY <1>2, <2>2, ConcatEmptySeq
    <2>4. SubSeq(image, 1, Len(image)) = image
      BY SubSeqFull
    <2> QED
      BY <1>4, <2>1, <2>2, <2>3, <2>4
  <1> QED
    BY <1>4, <1>6, <1>9

\* A step of the host keeps a clean transfer in order.
LEMMA HostClean ==
    ASSUME UlInv, UlHostNext, UlClean'
    PROVE  TransferInv' /\ NotRejected'
  <1>1. /\ UlTypeOK /\ ulHeadersSent \in Nat
        /\ UNCHANGED <<ulImage, ulDevice, ulDdr, ulExpect, ulGood, ulReported, ulLost>>
    BY HostTypes DEF UlInv, UlTypeOK, HostTypeOK
  <1>2. ulHeadersSent' \in {ulHeadersSent, ulHeadersSent + 1}
    <2>1. CASE UlRead
      BY <1>1, <2>1, HostReads
    <2>2. CASE UlSendHeader
      BY <2>2 DEF UlSendHeader
    <2>3. CASE \/ UlHeaderTimeout \/ UlSendBlock \/ UlAwaitAck \/ UlDrain \/ UlTimeout
               \/ \E preload \in BOOLEAN : UlStart(preload)
      BY <2>3 DEF UlHeaderTimeout, UlSendBlock, UlAwaitAck, UlDrain, UlTimeout, UlStart
    <2> QED
      BY <2>1, <2>2, <2>3 DEF UlHostNext, UlHostStep, UlRead
  <1>3. UlClean
    BY <1>1, <1>2 DEF UlClean
  <1>4. TransferInv /\ NotRejected
    BY <1>3 DEF UlInv, CleanInv
  <1>5. NotRejected'
    BY <1>1, <1>4 DEF NotRejected, UlAligned
  <1>6. TransferInv'
    <2>1. CASE \E preload \in BOOLEAN : UlStart(preload)
      <3>1. /\ ulHost = "idle" /\ ulHost' = "header"
            /\ UNCHANGED <<ulSent, ulHeadersSent, ulToDevice, ulToHost>>
        BY <2>1 DEF UlStart
      <3> QED
        BY <1>1, <1>4, <3>1
           DEF TransferInv, Unsent, InMagic, InSize, Refused, InPayload, Loaded, Held, HostWaits
    <2>2. CASE UlSendHeader
      <3>1. /\ ulHost = "header" /\ ulHost' = "wait start"
            /\ ulToDevice' = ulToDevice \o Header
            /\ ulHeadersSent' = ulHeadersSent + 1
            /\ UNCHANGED <<ulSent, ulToHost>>
        BY <2>2 DEF UlSendHeader
      <3>2. ulHeadersSent = 0 /\ ulHeadersSent' = 1
        <4>1. ulHeadersSent' = ulHeadersSent + 1 /\ ulHeadersSent' <= 1 /\ ulHeadersSent \in Nat
          BY <1>1, <3>1 DEF UlClean
        <4> QED
          BY <4>1
      <3>3. ulDevice = "magic" /\ ulSent = 0 /\ ulToHost = <<>> /\ ulToDevice = <<>>
        BY <1>4, <3>2
           DEF TransferInv, Unsent, InMagic, InSize, Refused, InPayload, Loaded, Held, HostWaits
      <3>4. ulToDevice' = Header
        <4>1. Header \in Seq(UlSymbols)
          BY TwoSymbols DEF Header, UlSymbols
        <4> QED
          BY <3>1, <3>3, <4>1, ConcatEmptySeq
      <3> QED
        BY <1>1, <3>1, <3>2, <3>3, <3>4
           DEF TransferInv, Unsent, InMagic, InSize, Refused, InPayload, Loaded, Held, HostWaits
    <2>3. CASE UlHeaderTimeout \/ UlTimeout
      <3>1. /\ ulHost # "idle" /\ ulHost' \in {"header", "error"}
            /\ (ulHost' = "header" => ulHost = "wait start")
            /\ UNCHANGED <<ulSent, ulHeadersSent, ulToDevice, ulToHost>>
        BY <2>3 DEF UlHeaderTimeout, UlTimeout
      <3> QED
        BY <1>1, <1>4, <3>1
           DEF TransferInv, Unsent, InMagic, InSize, Refused, InPayload, Loaded, Held, HostWaits,
               UlBooted
    <2>4. CASE UlRead \/ UlAwaitAck \/ UlDrain
      <3>1. /\ ulHost # "idle" /\ ulHost' # "idle"
            /\ UNCHANGED <<ulSent, ulHeadersSent, ulToDevice>>
        <4>1. CASE UlRead
          BY <1>1, <4>1, HostReads DEF UlRead, UlAwaitStart, UlAwaitCrc, UlAwaitPrompt, ReadUntil
        <4>2. CASE UlAwaitAck \/ UlDrain
          BY <4>2 DEF UlAwaitAck, UlDrain
        <4> QED
          BY <2>4, <4>1, <4>2
      <3>2. ~(Unsent \/ InMagic \/ InSize)
        <4>1. CASE UlRead \/ UlAwaitAck
          <5>1. ulToHost # <<>>
            BY <1>1, <4>1, HostReads DEF UlAwaitAck
          <5> QED
            BY <5>1 DEF Unsent, InMagic, InSize, HostWaits
        <4>2. CASE UlDrain
          BY <4>2 DEF UlDrain, Unsent, InMagic, InSize, HostWaits
        <4> QED
          BY <2>4, <4>1, <4>2
      <3>3. CASE Refused
        <4>1. UlRead
          BY <2>4, <3>3 DEF Refused, UlAwaitAck, UlDrain
        <4>2. ulHost' = ulHost /\ "START" \notin ToSet(ulToHost')
          BY <1>1, <3>3, <4>1, HostReads DEF Refused
        <4> QED
          BY <1>1, <3>1, <3>3, <4>2 DEF Refused, TransferInv
      <3> QED
        BY <1>1, <1>4, <3>1, <3>2, <3>3 DEF TransferInv, InPayload, Loaded, Held, UlBooted
    <2>5. CASE UlSendBlock
      <3>1. /\ ulHost = "upload" /\ ulHost' # "idle" /\ ulSent' = BlockEnd
            /\ ulToDevice' = ulToDevice \o SubSeq(ulImage, ulSent + 1, BlockEnd)
            /\ UNCHANGED ulHeadersSent
        BY <2>5 DEF UlSendBlock
      <3>2. ulSent \in 0 .. Len(ulImage) /\ BlockEnd \in 0 .. Len(ulImage) /\ ulSent <= BlockEnd
            /\ ulImage \in Seq(UlSymbols) /\ ulDdr \in Seq(UlSymbols) /\ ulToDevice \in Seq(UlSymbols)
        BY <1>1, BlockBounds, ImageTyped DEF UlTypeOK, HostTypeOK, LineTypeOK, DeviceTypeOK
      <3>3. CASE InPayload
        <4>1. ulDdr \o (ulToDevice \o SubSeq(ulImage, ulSent + 1, BlockEnd))
              = SubSeq(ulImage, 1, BlockEnd)
          <5>1. ulDdr \o ulToDevice = SubSeq(ulImage, 1, ulSent)
            BY <3>3 DEF InPayload
          <5>2. ulSent \in 0 .. Len(ulImage) /\ BlockEnd \in 0 .. Len(ulImage) /\ ulSent <= BlockEnd
            BY <3>2
          <5>3. ulDdr \in Seq(UlSymbols) /\ ulToDevice \in Seq(UlSymbols)
            BY <3>2
          <5>4. ulImage \in Seq(UlSymbols)
            BY <3>2
          <5> QED
            BY ONLY <5>1, <5>2, <5>3, <5>4, BlockContinues
        <4> QED
          BY <1>1, <3>1, <3>3, <4>1 DEF InPayload, TransferInv
      <3>4. CASE Loaded
        <4>1. /\ Len(ulImage) \in Nat /\ BlockEnd = Len(ulImage) /\ ulSent = Len(ulImage)
              /\ ulToDevice = <<>>
          BY <3>2, <3>4, ImageTyped DEF Loaded
        <4>2. SubSeq(ulImage, Len(ulImage) + 1, Len(ulImage)) = <<>>
          BY <4>1, ImageTyped, SubSeqEmpty
        <4>3. ulToDevice' = <<>>
          BY <3>1, <4>1, <4>2
        <4> QED
          BY <1>1, <3>1, <3>4, <4>1, <4>3 DEF Loaded, TransferInv, UlBooted
      <3> QED
        <4>1. CASE Held
          BY <1>1, <3>1, <4>1 DEF Held, TransferInv
        <4> QED
          BY <1>4, <3>1, <3>3, <3>4, <4>1
             DEF TransferInv, Unsent, InMagic, InSize, Refused, HostWaits
    <2> QED
      BY <2>1, <2>2, <2>3, <2>4, <2>5 DEF UlHostNext, UlHostStep, UlRead
  <1> QED
    BY <1>5, <1>6

\* The device takes its header and the image as they were sent, and rejects
\* neither.
LEMMA DeviceClean ==
    ASSUME UlInv, UlDeviceNext, UlClean
    PROVE  TransferInv' /\ NotRejected'
  <1>1. UlTypeOK /\ VerdictInv /\ TransferInv /\ NotRejected
    BY DEF UlInv, CleanInv
  <1>2. UNCHANGED <<ulImage, ulHost, ulSent, ulHeadersSent>>
    BY <1>1, DeviceVerdict
  <1>3. CASE UlDeviceMagic
    <2>1. ulDevice = "magic" /\ ulToDevice # <<>> /\ ulToDevice' = Tail(ulToDevice)
      BY <1>3 DEF UlDeviceMagic, Receive
    <2>2. InMagic
      BY <1>1, <2>1
         DEF TransferInv, Unsent, InSize, Refused, InPayload, Loaded, Held, UlBooted, HostWaits
    <2>3. Head(ulToDevice) = Magic /\ Tail(ulToDevice) = <<Size>>
      <3>1. ulToDevice = <<Magic, Size>>
        BY <2>2 DEF InMagic, HostWaits, Header
      <3> QED
        BY <3>1, TwoSymbols
    <2>4. ulDevice' = "size" /\ UNCHANGED <<ulToHost, ulReported>>
      BY <1>3, <2>3 DEF UlDeviceMagic
    <2>5. InSize'
      BY <1>2, <2>1, <2>2, <2>3, <2>4 DEF InMagic, InSize, HostWaits
    <2> QED
      BY <1>1, <1>2, <2>4, <2>5 DEF TransferInv, NotRejected, UlAligned
  <1>4. CASE UlDeviceSize
    <2>1. ulDevice = "size" /\ ulToDevice' = Tail(ulToDevice)
      BY <1>4 DEF UlDeviceSize, Receive
    <2>2. InSize
      BY <1>1, <2>1
         DEF TransferInv, Unsent, InMagic, Refused, InPayload, Loaded, Held, UlBooted, HostWaits
    <2>3. Head(ulToDevice) = Size /\ ulToDevice' = <<>>
      <3>1. ulToDevice = <<Size>>
        BY <2>2 DEF InSize, HostWaits
      <3> QED
        BY <2>1, <3>1, TwoSymbols
    <2>4. ulToHost = <<>> /\ ulHost \in {"wait start", "header", "error"}
          /\ ulSent = 0 /\ ulHeadersSent = 1
      BY <2>2 DEF InSize, HostWaits
    <2>5. CASE ~UlAligned
      <3>1. RejectHeader
        BY <1>1, <1>4, <2>3, <2>5, ImageTyped DEF UlDeviceSize
      <3>2. /\ ulDevice' = "magic"
            /\ ToSet(ulToHost') \subseteq ToSet(ulToHost) \cup {"HEADER FAIL", "READY"}
            /\ ulReported' \subseteq ulReported \cup {"HEADER FAIL", "READY"}
        BY <1>1, <3>1, Rejected
      <3>3. ToSet(ulToHost) = {}
        BY <2>4, EmptyLine
      <3>4. Refused'
        BY <1>2, <2>3, <2>4, <3>2, <3>3 DEF Refused
      <3>5. NotRejected'
        BY <1>1, <1>2, <2>5, <3>2 DEF NotRejected, UlAligned
      <3> QED
        BY <3>4, <3>5 DEF TransferInv
    <2>6. CASE UlAligned
      <3> DEFINE m == <<"START">>
      <3>1. /\ ulDevice' = "payload" /\ ulDdr' = <<>> /\ ulGood' /\ ulExpect' = Len(ulImage)
            /\ Send(m)
        BY <1>1, <1>4, <2>3, <2>6, ImageTyped DEF UlDeviceSize
      <3>2. m \in Seq(UlMarkers) /\ ToSet(m) = {"START"}
        BY Reports DEF UlMarkers
      <3> HIDE DEF m
      <3>3. ulReported' = ulReported \cup ToSet(m)
        BY <1>1, <3>1, <3>2, SendKeeps
      <3>4. InPayload'
        <4>1. ulDdr' \o ulToDevice' = <<>> /\ SubSeq(ulImage, 1, 0) = <<>>
          BY <2>3, <3>1, SubSeqEmpty
        <4>2. Len(ulDdr') < Len(ulImage)
          BY <1>1, <3>1, ImageTyped
        <4> QED
          BY <1>2, <2>4, <3>1, <4>1, <4>2 DEF InPayload
      <3>5. NotRejected'
        BY <1>1, <1>2, <2>6, <3>2, <3>3 DEF NotRejected, UlAligned
      <3> QED
        BY <3>4, <3>5 DEF TransferInv
    <2> QED
      BY <2>5, <2>6
  <1>5. CASE UlDevicePayload
    <2>1. /\ ulDevice = "payload" /\ ulToDevice # <<>>
          /\ ulToDevice' = Tail(ulToDevice) /\ ulDdr' = Append(ulDdr, Head(ulToDevice))
          /\ UNCHANGED <<ulExpect, ulGood>>
      BY <1>5 DEF UlDevicePayload, Receive
    <2>2. InPayload
      BY <1>1, <2>1 DEF TransferInv, Unsent, InMagic, InSize, Refused, Loaded, Held, UlBooted
    <2>3. /\ ulDdr' \o ulToDevice' = SubSeq(ulImage, 1, ulSent)
          /\ Len(ulDdr') <= Len(ulImage)
          /\ Len(ulDdr') = Len(ulImage) =>
                 ulDdr' = ulImage /\ ulToDevice' = <<>> /\ ulSent = Len(ulImage)
      <3>1. /\ ulDdr \in Seq(UlSymbols) /\ ulToDevice \in Seq(UlSymbols)
            /\ ulImage \in Seq(UlSymbols) /\ ulSent \in 0 .. Len(ulImage)
        BY <1>1, ImageTyped DEF UlTypeOK, HostTypeOK, LineTypeOK, DeviceTypeOK
      <3>2. Len(ulDdr) < Len(ulImage) /\ ulDdr \o ulToDevice = SubSeq(ulImage, 1, ulSent)
        BY <2>2 DEF InPayload
      <3> QED
        BY ONLY <2>1, <3>1, <3>2, SymbolMoves
    <2>4. PICK m \in Seq(UlMarkers) :
              /\ Send(m)
              /\ \/ /\ Len(ulDdr') # ulExpect /\ ulDevice' = "payload"
                    /\ ToSet(m) \subseteq {"+"}
                 \/ /\ Len(ulDdr') = ulExpect /\ ulDdr' = ulImage /\ ulDevice' = "boot"
                    /\ ToSet(m) \subseteq {"+", "PASS"}
                 \/ /\ Len(ulDdr') = ulExpect /\ ~(ulGood /\ ulDdr' = ulImage)
                    /\ ulDevice' \in {"held", "magic"} /\ "PASS" \notin ToSet(m)
      BY <1>1, <1>5, Payload
    <2>5. ulReported' = ulReported \cup ToSet(m)
      BY <1>1, <2>4, SendKeeps
    <2>6. ulGood /\ ulExpect = Len(ulImage)
      BY <2>2 DEF InPayload
    <2>7. ulDevice' \in {"payload", "boot"} /\ ToSet(m) \subseteq {"+", "PASS"}
          /\ (ulDevice' = "payload" => Len(ulDdr') # Len(ulImage))
          /\ (ulDevice' = "boot" => Len(ulDdr') = Len(ulImage))
      BY <2>3, <2>4, <2>6
    <2>8. NotRejected'
      BY <1>1, <1>2, <2>5, <2>7 DEF NotRejected, UlAligned
    <2>9. CASE ulDevice' = "payload"
      <3>1. Len(ulDdr') < Len(ulImage)
        <4>1. ulDdr' \in Seq(UlSymbols)
          BY <1>1, <1>5, Payload
        <4>2. Len(ulDdr') \in Nat
          BY <4>1, LineLength
        <4> QED
          BY <2>3, <2>7, <2>9, <4>2, ImageTyped
      <3>2. InPayload'
        BY <1>2, <2>1, <2>2, <2>3, <2>9, <3>1 DEF InPayload
      <3> QED
        BY <2>8, <3>2 DEF TransferInv
    <2>10. CASE ulDevice' = "boot"
      <3>1. Loaded'
        BY <1>2, <2>2, <2>3, <2>7, <2>10 DEF InPayload, Loaded, UlBooted
      <3> QED
        BY <2>8, <3>1 DEF TransferInv
    <2> QED
      BY <2>7, <2>9, <2>10
  <1>6. CASE UlDeviceBoot
    <2> DEFINE m == <<"PROMPT">>
    <2>1. ulDevice = "boot" /\ ulDevice' = "shell" /\ Send(m) /\ UNCHANGED ulToDevice
      BY <1>6 DEF UlDeviceBoot
    <2>2. m \in Seq(UlMarkers) /\ ToSet(m) = {"PROMPT"}
      BY Reports DEF UlMarkers
    <2> HIDE DEF m
    <2>3. ulReported' = ulReported \cup ToSet(m)
      BY <1>1, <2>1, <2>2, SendKeeps
    <2>4. Loaded
      BY <1>1, <2>1 DEF TransferInv, Unsent, InMagic, InSize, Refused, InPayload, Held
    <2>5. Loaded'
      BY <1>2, <2>1, <2>4 DEF Loaded, UlBooted
    <2> QED
      BY <1>1, <1>2, <2>2, <2>3, <2>5 DEF TransferInv, NotRejected, UlAligned
  <1>7. CASE UlDdrTimeout
    <2>1. ulDevice = "payload" /\ ulDevice' = "held" /\ UNCHANGED ulReported
      BY <1>7 DEF UlDdrTimeout
    <2>2. InPayload
      BY <1>1, <2>1
         DEF TransferInv, Unsent, InMagic, InSize, Refused, Loaded, Held, UlBooted, HostWaits
    <2> QED
      BY <1>1, <1>2, <2>1, <2>2 DEF InPayload, Held, TransferInv, NotRejected, UlAligned
  <1> QED
    BY <1>3, <1>4, <1>5, <1>6, <1>7 DEF UlDeviceNext

\* Every step keeps the inductive invariant: of the host, of the line and of
\* the device.
LEMMA UlStep ==
    ASSUME UlInv, [UlNext]_ulVars
    PROVE  UlInv'
  <1>0. UlTypeOK /\ VerdictInv
    BY DEF UlInv
  <1>1. CASE UlHostNext
    <2>1. UlTypeOK' /\ VerdictInv'
      BY <1>0, <1>1, HostTypes, HostVerdict
    <2>2. CleanInv'
      BY <1>1, HostClean DEF CleanInv
    <2> QED
      BY <2>1, <2>2 DEF UlInv
  <1>2. CASE UlLose
    BY <1>0, <1>2, LoseKeeps DEF UlInv, CleanInv, UlClean
  <1>3. CASE UlDeviceNext
    <2>1. UlTypeOK' /\ VerdictInv' /\ UNCHANGED <<ulHeadersSent, ulLost>>
      BY <1>0, <1>3, DeviceVerdict
    <2>2. CleanInv'
      <3>1. UlClean' => UlClean
        BY <2>1 DEF UlClean
      <3> QED
        BY <1>3, <3>1, DeviceClean DEF CleanInv
    <2> QED
      BY <2>1, <2>2 DEF UlInv
  <1>4. CASE UlStall \/ UNCHANGED ulVars
    <2>1. /\ UNCHANGED <<ulImage, ulHost, ulPreload, ulSent, ulHeadersSent, ulToDevice, ulToHost>>
          /\ UNCHANGED <<ulLost, ulDevice, ulDdr, ulExpect, ulGood, ulReported>>
          /\ ulStalled' \in BOOLEAN
      BY <1>0, <1>4 DEF UlStall, ulVars, deviceVars, UlTypeOK, LineTypeOK
    <2> QED
      BY <2>1 DEF UlInv, UlTypeOK, HostTypeOK, LineTypeOK, DeviceTypeOK, VerdictInv, UlBooted,
                  CleanInv, UlClean, TransferInv, NotRejected, UlAligned, HostWaits,
                  Unsent, InMagic, InSize, Refused, InPayload, Loaded, Held
  <1> QED
    BY <1>1, <1>2, <1>3, <1>4 DEF UlNext, UlHostNext, UlDeviceNext
------------------------------------------------------------------------------
(* The theorems. *)

\* UlInv holds of every run of the loader.
THEOREM UlInvariant == UlSpec => []UlInv
  BY UlInitially, UlStep, PTL DEF UlSpec

\* main() returns 0 only when the loader stage boots the host's image: no loss
\* and no repeated header makes it report a success over another DDR content.
THEOREM SuccessSound == UlSpec => []UlSuccessSound
  <1>1. UlInv => UlSuccessSound
    BY DEF UlInv, VerdictInv, UlBooted, UlSuccessSound
  <1> QED
    BY <1>1, UlInvariant, PTL

\* An upload with one header and no loss is rejected only for a length that is
\* no multiple of the loader's word, and then none of it is taken: write_all and
\* the block loop of main() send the image in order, whole and once.
THEOREM CleanTransfer == UlSpec => []UlCleanTransfer
  <1>1. UlInv => UlCleanTransfer
    BY DEF UlInv, CleanInv, UlClean, NotRejected, UlAligned, UlCleanTransfer
  <1> QED
    BY <1>1, UlInvariant, PTL
=============================================================================
