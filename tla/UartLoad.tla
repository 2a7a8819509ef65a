------------------------------- MODULE UartLoad -------------------------------
(***************************************************************************)
(* tools/fpga-uart-linux-load.py, the host side of a kernel upload over a  *)
(* serial line, against the loader stage it talks to                       *)
(* (sw/opensbi_linux_uart_loader.S, or the hardware preloader              *)
(* synth/fpga/xc7a100t/uart_ddr_loader.sv when --hardware-preload is       *)
(* given; the DDR is calibrated once and stays so).                        *)
(*                                                                         *)
(* A byte of the line is one symbol.  The 16-byte header is two of them:   *)
(* Magic, and Size for the length and the CRC-32 of the image.  The CRC is *)
(* taken to tell every two contents apart.  Both directions of the line    *)
(* are FIFO queues of any delay that may lose symbols, and the line may    *)
(* stop accepting the host's output for good; a timeout of the host may    *)
(* expire at any moment of a wait that has one.                            *)
(***************************************************************************)
EXTENDS Naturals, Sequences, FiniteSets, SequencesExt

CONSTANTS
    UlImages,        \* the images, sequences of symbols, that main() accepts
    MAX_IMAGE_BYTES, \* the longest of them, for the host and for the loader
    UlWord,          \* symbols of which the loader takes only multiples (4 in the code)
    BLOCK_BYTES,     \* symbols per acknowledged block (1024 in the code)
    UlHeaders,       \* headers sent before the ready deadline
    UlLosses         \* symbols the line may lose

Magic == "M"
Size == "S"
Header == <<Magic, Size>>

ASSUME UartAssumption ==
    /\ \A image \in UlImages :
           image \in Seq(ToSet(image)) /\ Len(image) \in 1 .. MAX_IMAGE_BYTES
    /\ MAX_IMAGE_BYTES \in Nat
    /\ UlWord \in Nat \ {0} /\ BLOCK_BYTES \in Nat \ {0}
    /\ UlHeaders \in Nat \ {0}
    /\ UlLosses \in Nat

VARIABLES
    ulImage,         \* the file main() was given
    ulHost,          \* where main() of the host is
    ulPreload,       \* --hardware-preload
    ulSent,          \* image symbols written so far
    ulHeadersSent,   \* how often the header was written
    ulToDevice,      \* the line, host to device
    ulToHost,        \* the line, device to host
    ulLost,          \* symbols lost so far
    ulStalled,       \* the line takes no more of what the host queued
    ulDevice,        \* where the loader stage is
    ulDdr,           \* what the loader stored since START
    ulExpect,        \* payload symbols the accepted header announced
    ulGood,          \* the accepted header is the host's
    ulReported       \* markers the device ever sent

ulVars == <<ulImage, ulHost, ulPreload, ulSent, ulHeadersSent, ulToDevice, ulToHost, ulLost,
            ulStalled, ulDevice, ulDdr, ulExpect, ulGood, ulReported>>
lineVars == <<ulLost, ulStalled>>
hostVars == <<ulImage, ulHost, ulPreload, ulSent, ulHeadersSent, ulLost, ulStalled>>
deviceVars == <<ulDevice, ulDdr, ulExpect, ulGood, ulReported>>

UlExits == {"exit 0", "exit 1", "error"}

UlInit ==
    /\ ulImage \in UlImages
    /\ ulHost = "idle"
    /\ ulPreload = FALSE
    /\ ulSent = 0 /\ ulHeadersSent = 0
    /\ ulToDevice = <<>> /\ ulToHost = <<>> /\ ulLost = 0 /\ ulStalled = FALSE
    /\ ulDevice = "magic"
    /\ ulDdr = <<>> /\ ulExpect = 0 /\ ulGood = FALSE
    /\ ulReported = {}
------------------------------------------------------------------------------
(* The host. *)

UlStart(preload) ==
    /\ ulHost = "idle"
    /\ ulHost' = "header"
    /\ ulPreload' = preload
    /\ UNCHANGED <<ulImage, ulSent, ulHeadersSent, ulToDevice, ulToHost, lineVars>>
    /\ UNCHANGED deviceVars

\* write_paced of the header.
UlSendHeader ==
    /\ ulHost = "header"
    /\ ulHost' = "wait start"
    /\ ulToDevice' = ulToDevice \o Header
    /\ ulHeadersSent' = ulHeadersSent + 1
    /\ UNCHANGED <<ulImage, ulPreload, ulSent, ulToHost, lineVars>>
    /\ UNCHANGED deviceVars

\* One read of read_until: a block of what has arrived.  The rest of a block
\* that holds a marker is dropped with it, and a marker of failure prevails.
ReadUntil(state, markers, failures, next) ==
    /\ ulHost = state
    /\ \E n \in 1 .. Len(ulToHost) :
           LET block == ToSet(SubSeq(ulToHost, 1, n))
           IN  /\ ulHost' = IF block \cap markers = {} THEN state
                          ELSE IF block \cap failures # {} THEN "exit 1" ELSE next
               /\ ulToHost' = SubSeq(ulToHost, n + 1, Len(ulToHost))
    /\ UNCHANGED <<ulImage, ulPreload, ulSent, ulHeadersSent, ulToDevice, lineVars>>
    /\ UNCHANGED deviceVars

UlAwaitStart == ReadUntil("wait start", {"START"}, {}, "upload")

\* The wait for START expired: the header is sent again until the deadline.
UlHeaderTimeout ==
    /\ ulHost = "wait start"
    /\ ulHost' = IF ulHeadersSent < UlHeaders THEN "header" ELSE "error"
    /\ UNCHANGED <<ulImage, ulPreload, ulSent, ulHeadersSent, ulToDevice, ulToHost, lineVars>>
    /\ UNCHANGED deviceVars

\* The end of the next block; write_all sends the whole image at once.
BlockEnd ==
    IF ulPreload \/ ulSent + BLOCK_BYTES > Len(ulImage)
    THEN Len(ulImage) ELSE ulSent + BLOCK_BYTES

\* Mutant: every block is cut from the start of the image.
UlSendBlockNoOffset ==
    /\ ulHost = "upload"
    /\ ulToDevice' = ulToDevice \o SubSeq(ulImage, 1, BlockEnd - ulSent)
    /\ ulSent' = BlockEnd
    /\ ulHost' = IF ulPreload THEN "drain" ELSE "wait ack"
    /\ UNCHANGED <<ulImage, ulPreload, ulHeadersSent, ulToHost, lineVars>>
    /\ UNCHANGED deviceVars

UlSendBlock ==
    /\ ulHost = "upload"
    /\ ulToDevice' = ulToDevice \o SubSeq(ulImage, ulSent + 1, BlockEnd)
    /\ ulSent' = BlockEnd
    /\ ulHost' = IF ulPreload THEN "drain" ELSE "wait ack"
    /\ UNCHANGED <<ulImage, ulPreload, ulHeadersSent, ulToHost, lineVars>>
    /\ UNCHANGED deviceVars

\* wait_for_ack reads one byte at a time and skips everything but '+'.
UlAwaitAck ==
    /\ ulHost = "wait ack"
    /\ ulToHost # <<>>
    /\ ulToHost' = Tail(ulToHost)
    /\ ulHost' = IF Head(ulToHost) # "+" THEN ulHost
                 ELSE IF ulSent < Len(ulImage) THEN "upload" ELSE "drain"
    /\ UNCHANGED <<ulImage, ulPreload, ulSent, ulHeadersSent, ulToDevice, lineVars>>
    /\ UNCHANGED deviceVars

\* termios.tcdrain returns when everything queued has left the host: the one
\* wait without a deadline.
UlDrain ==
    /\ ulHost = "drain"
    /\ ulStalled => ulToDevice = <<>>
    /\ ulHost' = "wait crc"
    /\ UNCHANGED <<ulImage, ulPreload, ulSent, ulHeadersSent, ulToDevice, ulToHost, lineVars>>
    /\ UNCHANGED deviceVars

\* Mutant: either verdict is taken for a success.
UlAwaitCrcUnchecked == ReadUntil("wait crc", {"PASS", "FAIL"}, {}, "wait prompt")

UlAwaitCrc == ReadUntil("wait crc", {"PASS", "FAIL"}, {"FAIL"}, "wait prompt")

UlAwaitPrompt == ReadUntil("wait prompt", {"PROMPT"}, {}, "exit 0")

\* Mutant: the wait for an acknowledgement has no deadline.
UlTimeoutNoAck ==
    /\ ulHost \in {"header", "upload", "wait crc", "wait prompt"}
    /\ ulHost' = "error"
    /\ UNCHANGED <<ulImage, ulPreload, ulSent, ulHeadersSent, ulToDevice, ulToHost, lineVars>>
    /\ UNCHANGED deviceVars

\* write_all stalls, or a wait for an acknowledgement or a marker expires:
\* TimeoutError ends the program.
UlTimeout ==
    /\ ulHost \in {"header", "upload", "wait ack", "wait crc", "wait prompt"}
    /\ ulHost' = "error"
    /\ UNCHANGED <<ulImage, ulPreload, ulSent, ulHeadersSent, ulToDevice, ulToHost, lineVars>>
    /\ UNCHANGED deviceVars
------------------------------------------------------------------------------
(* The line and the loader stage. *)

UlLose ==
    /\ ulLost < UlLosses
    /\ ulLost' = ulLost + 1
    /\ \/ \E i \in DOMAIN ulToDevice :
              ulToDevice' = RemoveAt(ulToDevice, i) /\ UNCHANGED ulToHost
       \/ \E i \in DOMAIN ulToHost :
              ulToHost' = RemoveAt(ulToHost, i) /\ UNCHANGED ulToDevice
    /\ UNCHANGED <<ulImage, ulHost, ulPreload, ulSent, ulHeadersSent, ulStalled>>
    /\ UNCHANGED deviceVars

\* The line stops accepting output with some of it still queued in the host,
\* for longer than any wait.
UlStall ==
    /\ ~ulStalled /\ ulToDevice # <<>>
    /\ ulStalled' = TRUE
    /\ UNCHANGED <<ulImage, ulHost, ulPreload, ulSent, ulHeadersSent, ulToDevice, ulToHost, ulLost>>
    /\ UNCHANGED deviceVars

Send(markers) ==
    /\ ulToHost' = ulToHost \o markers
    /\ ulReported' = ulReported \cup ToSet(markers)

\* uart_getc.
Receive ==
    /\ ulToDevice # <<>> /\ ~ulStalled
    /\ ulToDevice' = Tail(ulToDevice)
    /\ UNCHANGED hostVars

\* A header the loader rejects: the software stage says so and is ready again.
RejectHeader ==
    /\ ulDevice' = "magic"
    /\ IF ulPreload THEN UNCHANGED <<ulToHost, ulReported>>
       ELSE Send(<<"HEADER FAIL", "READY">>)

UlDeviceMagic ==
    /\ ulDevice = "magic"
    /\ Receive
    /\ IF Head(ulToDevice) = Magic
       THEN ulDevice' = "size" /\ UNCHANGED <<ulToHost, ulReported>>
       ELSE RejectHeader
    /\ UNCHANGED <<ulDdr, ulExpect, ulGood>>

\* The lengths a header may announce.
UlLengths == {n \in 1 .. MAX_IMAGE_BYTES : n % UlWord = 0}

\* The announced length and CRC.  The host announces the length of its file,
\* whatever it is.  Symbols that are not its header read as any length, mostly
\* an invalid one, and as a CRC no content matches.
UlDeviceSize ==
    /\ ulDevice = "size"
    /\ Receive
    /\ \/ /\ Head(ulToDevice) = Size => Len(ulImage) \notin UlLengths
          /\ RejectHeader
          /\ UNCHANGED <<ulDdr, ulExpect, ulGood>>
       \/ /\ ulDevice' = "payload"
          /\ ulDdr' = <<>>
          /\ ulGood' = (Head(ulToDevice) = Size)
          /\ ulExpect' \in (IF ulGood' THEN UlLengths \cap {Len(ulImage)} ELSE UlLengths)
          /\ Send(<<"START">>)

\* A payload symbol is stored; '+' follows each block, the CRC verdict the last.
UlDevicePayload ==
    /\ ulDevice = "payload"
    /\ Receive
    /\ ulDdr' = Append(ulDdr, Head(ulToDevice))
    /\ LET last == Len(ulDdr') = ulExpect
           ack == IF ~ulPreload /\ (last \/ Len(ulDdr') % BLOCK_BYTES = 0) THEN <<"+">> ELSE <<>>
           verdict == IF ulGood /\ ulDdr' = ulImage THEN "PASS" ELSE "FAIL"
       IN  IF ~last THEN ulDevice' = "payload" /\ Send(ack)
           ELSE IF verdict = "PASS" THEN ulDevice' = "boot" /\ Send(Append(ack, "PASS"))
           ELSE IF ulPreload THEN ulDevice' = "held" /\ Send(<<"FAIL">>)
           ELSE ulDevice' = "magic" /\ Send(ack \o <<"FAIL", "READY">>)
    /\ UNCHANGED <<ulExpect, ulGood>>

\* The preloader's write of a line to the DDR timed out: it stops for good and
\* says nothing.
UlDdrTimeout ==
    /\ ulPreload /\ ulDevice = "payload"
    /\ Receive
    /\ ulDevice' = "held"
    /\ UNCHANGED <<ulToHost, ulDdr, ulExpect, ulGood, ulReported>>

\* OpenSBI and Linux run to the shell.
UlDeviceBoot ==
    /\ ulDevice = "boot"
    /\ ulDevice' = "shell"
    /\ Send(<<"PROMPT">>)
    /\ UNCHANGED <<ulToDevice, ulDdr, ulExpect, ulGood>>
    /\ UNCHANGED hostVars

UlHostStep ==
    \/ UlSendHeader \/ UlAwaitStart \/ UlHeaderTimeout \/ UlSendBlock
    \/ UlAwaitAck \/ UlDrain \/ UlAwaitCrc \/ UlAwaitPrompt \/ UlTimeout

UlNext ==
    \/ \E preload \in BOOLEAN : UlStart(preload)
    \/ UlHostStep
    \/ UlLose
    \/ UlStall
    \/ UlDeviceMagic
    \/ UlDeviceSize
    \/ UlDevicePayload
    \/ UlDdrTimeout
    \/ UlDeviceBoot

UlSpec == UlInit /\ [][UlNext]_ulVars
------------------------------------------------------------------------------
(* Properties. *)

\* Exit status 0 means the target runs the host's image: whatever the line
\* loses, and however often the header was retransmitted into a payload, the
\* host reports a boot only of a DDR that holds the image bit for bit.
UlSuccessSound ==
    ulHost \in {"wait prompt", "exit 0"} =>
        ulDevice \in {"boot", "shell"} /\ ulDdr = ulImage

\* A transfer whose header was sent once over a line that loses nothing is
\* rejected only for the length of the file, and then before any of it is
\* taken: the blocks the host cuts are the image, in order.
UlCleanTransfer ==
    ulLost = 0 /\ ulHeadersSent <= 1 =>
        "FAIL" \notin ulReported
        /\ (IF Len(ulImage) % UlWord = 0 THEN "HEADER FAIL" ELSE "START") \notin ulReported

\* The host ends, even if the target is silent, the line lost its answer or
\* stops taking output (write_all raises TimeoutError then), unless it stops
\* when everything is written and tcdrain waits for it.
UlEnds ==
    ulHost = "header" ~> ulHost \in UlExits \/ (ulHost = "drain" /\ ulStalled)
=============================================================================
