------------------------------- MODULE SdImage -------------------------------
(***************************************************************************)
(* The microSD boot image: tools/make-fpga-sd-image.py, which builds and   *)
(* verifies it, the copy to the card, and the boot ROM sw/fpga_sd_boot.S,  *)
(* which loads it into DDR.                                                *)
(*                                                                         *)
(* The tool can be killed between any two of its steps or run out of disk  *)
(* in a write, a stored image can lose a byte, a copy to the card can stop *)
(* half way over what the card held before, and a sector read can fail.    *)
(* A byte is a number, a sector SdSector of them; the header sector is a   *)
(* record.  A CRC32 is taken to tell any two contents apart.  The SPI      *)
(* transfers and the printed records are left out.                         *)
(***************************************************************************)
EXTENDS Integers, Sequences, FiniteSets, SequencesExt

CONSTANTS
    SdInputs,            \* [dts, opensbi, linux, dtb]: what a build may be given
    SdTrampoline,        \* TRAMPOLINE_WORDS
    SdSector,            \* SECTOR_BYTES
    FIRST_PAYLOAD_LBA,
    SdMagicOffset, SdMagicByte,      \* LINUX_MAGIC_OFFSET, LINUX_MAGIC
    SdLoadAddress,       \* load addresses of TRAMP, OPENSBI, LINUX and FDT
    DDR_BASE, DDR_LIMIT,
    SdCardBytes,         \* bytes of the card after its first sector
    SdBuilds, SdCopies,  \* bounds: builds, copies to the card
    SdFaults             \* bound: kills, full disks, lost bytes, failed reads

ASSUME SdImageAssumption ==
    /\ SdSector \in Nat \ {0} /\ FIRST_PAYLOAD_LBA \in Nat \ {0}
    /\ DDR_BASE \in Nat /\ DDR_LIMIT \in Nat /\ SdMagicOffset \in Nat
    /\ SdCardBytes \in Nat /\ SdBuilds \in Nat /\ SdCopies \in Nat /\ SdFaults \in Nat

VARIABLES
    sdTool,      \* where main() is: [phase, image, input]
    sdFile,      \* the output file
    sdManifest,  \* its manifest
    sdMade,      \* inputs of the builds that reached the write
    sdCard,      \* the card
    sdRom,       \* the boot ROM: [phase, entry, lba, sectors, dest, left, data]
    sdDdr,       \* DDR memory
    sdUsed       \* bounds used: [builds, copies, faults]

sdVars == <<sdTool, sdFile, sdManifest, sdMade, sdCard, sdRom, sdDdr, sdUsed>>
sdHost == <<sdTool, sdFile, sdManifest, sdMade>>
sdBoard == <<sdCard, sdRom, sdDdr>>

Zeros(n) == [i \in 1 .. n |-> 0]

\* No header: an empty file, a blank card.
NoHead == [magic |-> FALSE, bytes |-> 0, entries |-> <<>>, crc |-> <<0, <<>>>>]
NoImage == [head |-> NoHead, bytes |-> <<>>]
NoInput == [dts |-> FALSE, opensbi |-> <<>>, linux |-> <<>>, dtb |-> <<>>]
RomReset == [phase |-> "reset", entry |-> 1, lba |-> 0, sectors |-> 0, dest |-> 0,
             left |-> 0, data |-> <<>>]

SdInit ==
    /\ sdTool = [phase |-> "idle", image |-> NoImage, input |-> NoInput]
    /\ sdFile = NoImage /\ sdManifest = <<>>
    /\ sdMade = {}
    /\ sdCard = [head |-> NoHead, bytes |-> Zeros(SdCardBytes)]
    /\ sdRom = [RomReset EXCEPT !.phase = "off"]
    /\ sdDdr = [a \in DDR_BASE .. DDR_LIMIT - 1 |-> 0]
    /\ sdUsed = [builds |-> 0, copies |-> 0, faults |-> 0]

\* Bound: faults strike the last build and what follows it.
Fault == /\ sdUsed.faults < SdFaults /\ sdUsed.builds = SdBuilds
         /\ sdUsed' = [sdUsed EXCEPT !.faults = @ + 1]
------------------------------------------------------------------------------
(* The image. *)

Tags == <<"TRAMP", "OPENSBI", "LINUX", "FDT">>
Payloads(input) == <<SdTrampoline, input.opensbi, input.linux, input.dtb>>

sectors_for(n) == (n + SdSector - 1) \div SdSector

\* make_entries: payloads packed one after the other from FIRST_PAYLOAD_LBA.
Lba(input, k) ==
    FIRST_PAYLOAD_LBA
        + FoldLeft(+, 0, [j \in 1 .. k - 1 |-> sectors_for(Len(Payloads(input)[j]))])
make_entries(input) ==
    [k \in DOMAIN Tags |->
        LET data == Payloads(input)[k]
        IN  [tag |-> Tags[k], lba |-> Lba(input, k), sectors |-> sectors_for(Len(data)),
             load |-> SdLoadAddress[k], len |-> Len(data), crc |-> data]]

\* encode_header: the CRC covers every field before it.
encode_header(entries, n) ==
    [magic |-> TRUE, bytes |-> n, entries |-> entries, crc |-> <<n, entries>>]

Start(entry) == entry.lba * SdSector
PaddedEnd(entry) == Start(entry) + entry.sectors * SdSector

\* Byte a of an image or a card, counted from its beginning, after the header.
ByteAt(img, a) == img.bytes[a - SdSector + 1]
ImageBytes(img) == IF img.head = NoHead THEN 0 ELSE SdSector + Len(img.bytes)
Data(img, entry) == [i \in 1 .. entry.len |-> ByteAt(img, Start(entry) + i - 1)]

\* build's bytearray: zero but for the header and the payloads.
BuiltImage(input) ==
    LET entries == make_entries(input)
        padded(k) == entries[k].crc \o Zeros(entries[k].sectors * SdSector - entries[k].len)
    IN  [head  |-> encode_header(entries, PaddedEnd(Last(entries))),
         bytes |-> Zeros((FIRST_PAYLOAD_LBA - 1) * SdSector)
                       \o FlattenSeq([k \in DOMAIN entries |-> padded(k)])]

\* decode_header's refusals, in their order.
decode_header(img) ==
    LET head == img.head  entries == img.head.entries
    IN  /\ img.head # NoHead
        /\ head.magic
        /\ entries # <<>>
        /\ head.bytes = ImageBytes(img)
        /\ head.crc = <<head.bytes, entries>>
        /\ \A k \in DOMAIN entries :
               /\ entries[k].sectors # 0 /\ entries[k].len # 0
               /\ entries[k].len <= entries[k].sectors * SdSector
               /\ entries[k].lba >= FIRST_PAYLOAD_LBA
               /\ PaddedEnd(entries[k]) <= ImageBytes(img)
        /\ \A j, k \in DOMAIN entries : j # k =>
               PaddedEnd(entries[j]) <= Start(entries[k]) \/ PaddedEnd(entries[k]) <= Start(entries[j])

\* verify_bytes: whole sectors, the header, and each payload with its padding.
verify_bytes(img) ==
    /\ ImageBytes(img) % SdSector = 0
    /\ decode_header(img)
    /\ \A k \in DOMAIN img.head.entries :
           LET entry == img.head.entries[k]
           IN  /\ Data(img, entry) = entry.crc
               /\ \A a \in Start(entry) + entry.len .. PaddedEnd(entry) - 1 : ByteAt(img, a) = 0

\* manifest: the digests of the image and of every payload in it; a SHA-256
\* stands for what it was taken of.
manifest(img) ==
    [bytes |-> ImageBytes(img), sha256 |-> img,
     entries |-> [k \in DOMAIN img.head.entries |->
                     [entry |-> img.head.entries[k], sha256 |-> Data(img, img.head.entries[k])]]]
------------------------------------------------------------------------------
(* The tool.  It and the ROM share only the card, so their steps need not   *)
(* interleave: the tool runs while the board is off.                       *)

Running == sdTool.phase \in {"write", "check", "manifest"}
Off == sdRom.phase \notin {"reset", "entry", "sector"}
ToolAt(phase) == sdTool' = [sdTool EXCEPT !.phase = phase]

\* compile_dts: the preprocessor and dtc run and leave a DTB.
compile_dts(input) == input.dts

\* build's refusals: the DTS does not compile, an empty input, no Image magic.
BuildRefused(input) ==
    \/ ~compile_dts(input)
    \/ input.opensbi = <<>> \/ input.linux = <<>>
    \/ Len(input.linux) <= SdMagicOffset \/ input.linux[SdMagicOffset + 1] # SdMagicByte

SdBuild(input) ==
    /\ ~Running /\ Off
    /\ sdUsed.builds < SdBuilds
    /\ sdUsed' = [sdUsed EXCEPT !.builds = @ + 1]
    /\ IF BuildRefused(input)
       THEN ToolAt("exit 2") /\ UNCHANGED sdMade
       ELSE /\ sdTool' = [phase |-> "write", image |-> BuiltImage(input), input |-> input]
            /\ sdMade' = sdMade \cup {input}
    /\ UNCHANGED <<sdFile, sdManifest, sdBoard>>

\* output.write_bytes: the old contents are gone before the first byte of the new.
SdWrite ==
    /\ sdTool.phase = "write"
    /\ sdFile' = sdTool.image
    /\ ToolAt("check")
    /\ UNCHANGED <<sdManifest, sdMade, sdBoard, sdUsed>>

\* ... and stops after some of them: the disk is full, or the tool is killed.
SdWriteCut(n) ==
    /\ sdTool.phase = "write"
    /\ Fault
    /\ sdFile' = IF n = 0 THEN NoImage
                 ELSE [sdTool.image EXCEPT !.bytes = SubSeq(@, 1, n - 1)]
    /\ ToolAt("stopped")
    /\ UNCHANGED <<sdManifest, sdMade, sdBoard>>

\* The tool verifies its own bytes, then writes the manifest.
SdCheckBuilt ==
    /\ sdTool.phase = "check"
    /\ ToolAt(IF verify_bytes(sdTool.image) THEN "manifest" ELSE "exit 2")
    /\ UNCHANGED <<sdFile, sdManifest, sdMade, sdBoard, sdUsed>>

SdManifest ==
    /\ sdTool.phase = "manifest"
    /\ sdManifest' = manifest(sdTool.image)
    /\ ToolAt("exit 0")
    /\ UNCHANGED <<sdFile, sdMade, sdBoard, sdUsed>>

SdKill ==
    /\ sdTool.phase \in {"check", "manifest"}
    /\ Fault
    /\ ToolAt("stopped")
    /\ UNCHANGED <<sdFile, sdManifest, sdMade, sdBoard>>

\* Storage loses a byte of the file: of its header, or after it.
SdLoseByte(i) ==
    /\ ~Running /\ Off
    /\ Fault
    /\ \/ /\ i = 0 /\ sdFile.head.entries # <<>>
          /\ sdFile' = [sdFile EXCEPT !.head.entries[1].lba = @ + 1]
       \/ /\ i \in DOMAIN sdFile.bytes
          /\ sdFile' = [sdFile EXCEPT !.bytes[i] = @ + 1]
    /\ ToolAt("idle")
    /\ UNCHANGED <<sdManifest, sdMade, sdBoard>>
------------------------------------------------------------------------------
(* The card and the boot ROM. *)

\* dd of the first n bytes after the header, in whole sectors; the rest of the
\* card keeps what it held.  The board is without power.
SdCopy(n) ==
    /\ Off /\ ~Running
    /\ sdFile.head # NoHead
    /\ n % SdSector = 0 \/ n = Len(sdFile.bytes)
    /\ Len(sdFile.bytes) <= SdCardBytes
    /\ sdUsed.copies < SdCopies
    /\ sdUsed' = [sdUsed EXCEPT !.copies = @ + 1,
                                !.faults = IF n < Len(sdFile.bytes) THEN @ + 1 ELSE @]
    /\ n < Len(sdFile.bytes) => sdUsed.faults < SdFaults /\ sdUsed.builds = SdBuilds
    /\ sdCard' = [head  |-> sdFile.head,
                  bytes |-> SubSeq(sdFile.bytes, 1, n) \o SubSeq(sdCard.bytes, n + 1, SdCardBytes)]
    /\ sdRom' = [RomReset EXCEPT !.phase = "off"]
    /\ UNCHANGED <<sdHost, sdDdr>>

\* Power on: DDR may still hold the last boot's contents.
SdPowerOn ==
    /\ sdRom.phase = "off" /\ ~Running
    /\ sdRom' = RomReset
    /\ UNCHANGED <<sdHost, sdCard, sdDdr, sdUsed>>

RomAt(phase) == sdRom' = [sdRom EXCEPT !.phase = phase]

\* The card is not there, does not initialise, or does not return the sector.
SdRomFails(message) ==
    /\ \/ sdRom.phase = "reset" /\ message \in {"no card", "init fail", "read fail"}
       \/ sdRom.phase = "sector" /\ message = "read fail"
    /\ Fault
    /\ RomAt(message)
    /\ UNCHANGED <<sdHost, sdCard, sdDdr>>

\* The checks on sector zero.
HeaderAccepted(head) ==
    /\ head.magic
    /\ Len(head.entries) = Len(Tags)
    /\ head.bytes # 0 /\ head.bytes % SdSector = 0
    /\ head.crc = <<head.bytes, head.entries>>

SdRomHeader ==
    /\ sdRom.phase = "reset"
    /\ RomAt(IF HeaderAccepted(sdCard.head) THEN "entry" ELSE "header fail")
    /\ UNCHANGED <<sdHost, sdCard, sdDdr, sdUsed>>

\* The checks on one descriptor; the first must be the trampoline.
EntryAccepted(k, entry) ==
    /\ k = 1 => entry.tag = "TRAMP" /\ entry.load = DDR_BASE
    /\ entry.sectors # 0 /\ entry.len # 0
    /\ entry.lba >= FIRST_PAYLOAD_LBA
    /\ sectors_for(entry.len) = entry.sectors
    /\ entry.load >= DDR_BASE /\ entry.load + entry.len <= DDR_LIMIT

SdRomEntry ==
    LET entry == sdCard.head.entries[sdRom.entry]
    IN  /\ sdRom.phase = "entry"
        /\ IF EntryAccepted(sdRom.entry, entry)
           THEN sdRom' = [phase |-> "sector", entry |-> sdRom.entry, lba |-> entry.lba,
                          sectors |-> entry.sectors, dest |-> entry.load, left |-> entry.len,
                          data |-> <<>>]
           ELSE RomAt("header fail")
        /\ UNCHANGED <<sdHost, sdCard, sdDdr, sdUsed>>

\* After the last sector of an entry.
\* Mutant: the CRC32 of the copied bytes is not compared.
EntryEndUnchecked(entry, sectors, data) ==
    IF sectors # 0 THEN "header fail"
    ELSE IF sdRom.entry = Len(Tags) THEN "pass" ELSE "entry"

EntryEnd(entry, sectors, data) ==
    IF sectors # 0 THEN "header fail"
    ELSE IF data # entry.crc THEN "crc fail"
    ELSE IF sdRom.entry = Len(Tags) THEN "pass" ELSE "entry"

\* One sector: read, copied to DDR, and added to the entry's CRC32.
SdRomSector ==
    LET entry == sdCard.head.entries[sdRom.entry]
        count == IF sdRom.left < SdSector THEN sdRom.left ELSE SdSector
        read  == [i \in 1 .. count |-> ByteAt(sdCard, sdRom.lba * SdSector + i - 1)]
        data  == sdRom.data \o read
    IN  /\ sdRom.phase = "sector"
        /\ sdDdr' = [a \in DOMAIN sdDdr |->
                        IF a \in sdRom.dest .. sdRom.dest + count - 1
                        THEN read[a - sdRom.dest + 1] ELSE sdDdr[a]]
        /\ LET left == sdRom.left - count
               phase == IF left # 0 THEN "sector" ELSE EntryEnd(entry, sdRom.sectors - 1, data)
           IN  sdRom' = [phase |-> phase,
                         entry |-> sdRom.entry + (IF phase = "entry" THEN 1 ELSE 0),
                         lba |-> sdRom.lba + 1, sectors |-> sdRom.sectors - 1,
                         dest |-> sdRom.dest + count, left |-> left, data |-> data]
        /\ UNCHANGED <<sdHost, sdCard, sdUsed>>

SdNext ==
    \/ \E input \in SdInputs : SdBuild(input)
    \/ SdWrite
    \/ \E n \in 0 .. Len(sdTool.image.bytes) : SdWriteCut(n)
    \/ SdCheckBuilt
    \/ SdManifest
    \/ SdKill
    \/ \E i \in 0 .. Len(sdFile.bytes) : SdLoseByte(i)
    \/ \E n \in 0 .. Len(sdFile.bytes) : SdCopy(n)
    \/ SdPowerOn
    \/ \E message \in {"no card", "init fail", "read fail"} : SdRomFails(message)
    \/ SdRomHeader
    \/ SdRomEntry
    \/ SdRomSector

SdSpec == SdInit /\ [][SdNext]_sdVars
------------------------------------------------------------------------------
(* Properties. *)

\* A boot that prints PASS has loaded the four payloads of one build, whatever
\* the card held before and wherever a copy to it stopped.  (A payload longer
\* than the distance to the next load address is overwritten by the next one:
\* neither the tool nor the ROM looks at that.)
PassExact ==
    sdRom.phase = "pass" =>
        \E input \in sdMade :
            LET covers(k, a) == /\ SdLoadAddress[k] <= a
                                /\ a < SdLoadAddress[k] + Len(Payloads(input)[k])
            IN  /\ sdCard.head = BuiltImage(input).head
                /\ \A k \in DOMAIN Tags, a \in DOMAIN sdDdr :
                       covers(k, a) /\ ~(\E j \in k + 1 .. Len(Tags) : covers(j, a)) =>
                           sdDdr[a] = Payloads(input)[k][a - SdLoadAddress[k] + 1]

\* The ROM refuses no card that holds a whole image --verify accepts, unless a
\* payload reaches past the end of DDR, which the tool does not look at.
VerifiedBoots ==
    sdRom.phase \in {"header fail", "crc fail"} =>
        \/ ~verify_bytes([sdCard EXCEPT !.bytes = SubSeq(@, 1, sdCard.head.bytes - SdSector)])
        \/ \E k \in DOMAIN sdCard.head.entries :
               sdCard.head.entries[k].load + sdCard.head.entries[k].len > DDR_LIMIT

\* --verify accepts exactly the files that are, but for the bytes between the
\* header and the first payload, what a build of the tool wrote in full, and
\* a build that exits 0 leaves such a file with the manifest that describes it.
VerifySound ==
    LET gap == 1 .. (FIRST_PAYLOAD_LBA - 1) * SdSector
        matches(input) ==
            LET built == BuiltImage(input)
            IN  /\ sdFile.head = built.head /\ Len(sdFile.bytes) = Len(built.bytes)
                /\ \A i \in DOMAIN built.bytes \ gap : sdFile.bytes[i] = built.bytes[i]
    IN  /\ sdFile # NoImage =>
               (verify_bytes(sdFile) <=>
                   \E input \in sdMade : input.dtb # <<>> /\ matches(input))
        /\ sdTool.phase = "exit 0" =>
               /\ matches(sdTool.input) /\ sdManifest.sha256 = sdFile
               /\ \A k \in DOMAIN Tags : sdManifest.entries[k].sha256 = Payloads(sdTool.input)[k]

\* The card boots what a build put into the image, or not at all: the three
\* promises of doc/fpga/sd-boot-image.md together.
SdBootSound == PassExact /\ VerifiedBoots /\ VerifySound
=============================================================================
