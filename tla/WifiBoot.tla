------------------------------- MODULE WifiBoot -------------------------------
(***************************************************************************)
(* The Wi-Fi image (src/examples/embassy_net_wifi.rs) from power-on to the *)
(* runner, and the runner's watch from there on.                           *)
(*                                                                         *)
(* One EMMC controller serves both the card and the radio, so the firmware *)
(* is chosen from the board's revision and read off the card before the    *)
(* chip it is for can be asked which it is.  kmain then brings the chip up *)
(* and joins; between that and the runner's first poll the firmware may    *)
(* already lose the network.                                               *)
(*                                                                         *)
(* The card, the chip and the mailbox are external: each may refuse, and   *)
(* each refusal is printed and halts.                                      *)
(***************************************************************************)
EXTENDS WifiWatch, SequencesExt

CONSTANTS
    Buffer,     \* size of a static buffer, in reads
    MaxFile     \* largest file on the card, in reads

ASSUME FileAssumption == {Buffer, MaxFile} \subseteq Nat \ {0}

VARIABLES
    boot,       \* where kmain, or run, is
    board,      \* what the revision says the radio is, once read
    chip,       \* the radio that is on the board
    running,    \* the firmware the chip was given
    emmc,       \* what the one controller is muxed to
    file,       \* the file being read: its size, what reads of it give, and
                \* how much is read
    lens        \* lengths of the files read so far

bootVars == <<boot, board, chip, running, emmc, file, lens>>
allVars == <<bootVars, vars>>

Radios == {"43430", "43455"}
Files == 4      \* firmware, nvram, CLM, credentials
NoFile == [size |-> 0, avail |-> 0, total |-> 0]

BootTypes ==
    /\ boot \in {"revision", "radio", "sd", "open", "read", "sdio", "chip_id",
                 "firmware", "wifi", "mac", "clm", "config", "join", "driver",
                 "run", "up", "halted"}
    /\ board \in Radios \cup {"none"} /\ running \in Radios \cup {"none"}
    /\ chip \in Radios \cup {"any"}
    /\ emmc \in {"none", "card", "radio"}
    /\ file \in [size : 0 .. MaxFile, avail : 0 .. MaxFile, total : 0 .. Buffer]
    /\ lens \in Seq(0 .. Buffer) /\ Len(lens) <= Files

BootTypeOK == TypeOK /\ BootTypes

BootInit ==
    /\ Init
    /\ boot = "revision"
    /\ board = "none" /\ chip \in Radios /\ running = "none"
    /\ emmc = "none" /\ file = NoFile /\ lens = <<>>

-----------------------------------------------------------------------------
(* A step of kmain that prints what went wrong and halts, or goes on.      *)
Try(at, then) == boot = at /\ boot' \in {then, "halted"} /\ UNCHANGED vars

BoardRevision ==
    /\ Try("revision", "radio")
    /\ UNCHANGED <<board, chip, running, emmc, file, lens>>

(* radio(): a table from board to radio, which may be wrong for a board it *)
(* does not know, and answers nothing for one without a radio.             *)
Radio ==
    /\ boot = "radio"
    /\ board' \in Radios \cup {"none"}
    /\ boot' = IF board' = "none" THEN "halted" ELSE "sd"
    /\ UNCHANGED <<chip, running, emmc, file, lens, vars>>

SdInit ==
    /\ Try("sd", "open")
    /\ emmc' = "card"
    /\ UNCHANGED <<board, chip, running, file, lens>>

(* load_files opens the directories, then each file in turn.  What reads   *)
(* of it give may end before the size its directory entry states.          *)
OpenFile ==
    /\ Try("open", "read")
    /\ \E size \in 0 .. MaxFile : \E avail \in 0 .. size :
          file' = [size |-> size, avail |-> avail, total |-> 0]
    /\ UNCHANGED <<board, chip, running, emmc, lens>>

(* read_file: until the end of the file, of the buffer, or a read that     *)
(* gives nothing.  A read may fail.                                        *)
ReadMore ==
    /\ boot = "read"
    /\ file.total < file.avail /\ file.total < Buffer
    /\ \/ file' = [file EXCEPT !.total = @ + 1] /\ UNCHANGED boot
       \/ boot' = "halted" /\ UNCHANGED file
    /\ UNCHANGED <<board, chip, running, emmc, lens, vars>>

(* Mutant: a read that gives nothing is tried again.                       *)
FileReadToEnd == file.total \in {file.size, Buffer}

FileRead == file.total \in {file.size, file.avail, Buffer}

NextFile ==
    /\ boot = "read"
    /\ FileRead
    /\ lens' = Append(lens, file.total)
    /\ file' = NoFile
    /\ boot' = IF Len(lens') < Files THEN "open" ELSE "sdio"
    /\ UNCHANGED <<board, chip, running, emmc, vars>>

-----------------------------------------------------------------------------
(* The SD driver is dropped, and the controller muxed to the radio.        *)
SdioInit ==
    /\ Try("sdio", "chip_id")
    /\ emmc' = "radio"
    /\ UNCHANGED <<board, chip, running, file, lens>>

(* The check on the guess radio() made.                                    *)
(* Mutant: an answer of any chip is taken as a bus that is alive.          *)
ChipAnswers(id) == id \in Radios

ChipExpected(id) == id = board

ChipId ==
    /\ boot = "chip_id"
    /\ boot' \in (IF ChipExpected(chip) THEN {"firmware"} ELSE {}) \cup {"halted"}
    /\ UNCHANGED <<board, chip, running, emmc, file, lens, vars>>

LoadFirmware ==
    /\ Try("firmware", "wifi")
    /\ running' = board
    /\ UNCHANGED <<board, chip, emmc, file, lens>>

WifiNew ==
    /\ Try("wifi", "mac")
    /\ UNCHANGED <<board, chip, running, emmc, file, lens>>

(* cur_etheraddr must answer with six bytes.                               *)
EtherAddr ==
    /\ Try("mac", "clm")
    /\ UNCHANGED <<board, chip, running, emmc, file, lens>>

LoadClm ==
    /\ Try("clm", "config")
    /\ UNCHANGED <<board, chip, running, emmc, file, lens>>

(* parse_config: two lines, neither empty.                                 *)
ParseConfig ==
    /\ boot = "config"
    /\ boot' \in (IF Last(lens) > 0 THEN {"join"} ELSE {}) \cup {"halted"}
    /\ UNCHANGED <<board, chip, running, emmc, file, lens, vars>>

JoinWpa2 ==
    /\ Try("join", "driver")
    /\ UNCHANGED <<board, chip, running, emmc, file, lens>>

(* run: the time driver and the timer's interrupt, and no other, since the *)
(* runner awaits none.                                                     *)
InitDriver ==
    /\ boot = "driver"
    /\ boot' = "run"
    /\ UNCHANGED <<board, chip, running, emmc, file, lens, vars>>

(* wifi::new, reconnecting() and executor.run.  What kmain knew of the     *)
(* board is not read again.                                                *)
Run ==
    /\ boot = "run"
    /\ boot' = "up"
    /\ board' = "none" /\ chip' = "any" /\ running' = "none" /\ lens' = <<>>
    /\ UNCHANGED <<emmc, file, vars>>

LoadFiles == SdInit \/ OpenFile \/ ReadMore \/ NextFile
BringUpChip == SdioInit \/ ChipId \/ LoadFirmware \/ WifiNew \/ EtherAddr
GetOnNetwork == LoadClm \/ ParseConfig \/ JoinWpa2

Kmain ==
    \/ BoardRevision \/ Radio
    \/ LoadFiles \/ BringUpChip \/ GetOnNetwork
    \/ InitDriver \/ Run

(* A joined chip can lose its network before the runner's first poll, and  *)
(* lose it for as long as that takes.                                      *)
Firmware == Lose \/ Regain \/ Settle \/ \E d \in 1 .. MaxDelay : Elapse(d)

Joined == boot \in {"driver", "run"}

WhileUp(A) == boot = "up" /\ A /\ UNCHANGED bootVars

BootNext ==
    \/ Kmain
    \/ Joined /\ Firmware /\ UNCHANGED bootVars
    \/ WhileUp(Next)

BootFairness ==
    /\ WF_allVars(Kmain)
    /\ WF_allVars(WhileUp(\E d \in 1 .. MaxDelay : Elapse(d)))
    /\ WF_allVars(WhileUp(Begin)) /\ WF_allVars(WhileUp(Pass))
    /\ WF_allVars(WhileUp(settled /\ Regain))

BootSpec == BootInit /\ [][BootNext]_allVars /\ BootFairness

-----------------------------------------------------------------------------
(* The chip never runs firmware of another radio, though the firmware is   *)
(* chosen before the chip can be asked (embassy_net_wifi.rs 204-216,       *)
(* 332-358).                                                               *)
FirmwareFits == running # "none" => running = chip

(* Boot ends, with the executor running or with a message and a halt,      *)
(* whatever the card holds (embassy_net_wifi.rs 232-253).                  *)
BootEnds == <>(boot \in {"up", "halted"})
=============================================================================
