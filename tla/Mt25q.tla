------------------------------- MODULE Mt25q -------------------------------
(***************************************************************************)
(* The NOR flash driver (drivers/mt25q/mt25q.c): mt25q_write, mt25q_read   *)
(* and the three erase functions, one action per exchange on the SPI port. *)
(* The memory is external: a PROGRAM or ERASE needs its write enable       *)
(* latch, keeps it busy for a while and clears the latch at its end; while *)
(* it is busy it answers only to the status registers, and it ignores the  *)
(* address bits beyond its size.                                           *)
(*                                                                         *)
(* A byte is one bit, as in NorMemory, and the calls to the SPI port do    *)
(* not fail: port and chip select are constants of the driver.             *)
(***************************************************************************)
EXTENDS Integers

CONSTANTS Size,     \* fdo.size
          PageSize, \* fdo.page_size
          UnitSize, \* the sizes of "die", "sector" and "sub_sector"
          Calls,    \* the calls of the driver's clients
          NoCall, NoJob,
          Failures  \* what may go wrong: "timeout", an operation outlasts
                    \* the polling; "fault", the memory fails it half-way

ASSUME Mt25qAssumption ==
  /\ Size \in Nat \ {0} /\ PageSize \in Nat \ {0} /\ Size % PageSize = 0
  /\ UnitSize \in [{"die", "sector", "sub_sector"} -> Nat \ {0}]
  /\ \A c \in Calls :
       \/ /\ c.op = "write" /\ c.adr \in Nat /\ c.len \in Nat \ {0}
          /\ c.zeros \subseteq 0 .. (c.len - 1)
       \/ c.op = "read" /\ c.adr \in Nat /\ c.len \in Nat
       \/ c.op = "erase" /\ c.unit \in DOMAIN UnitSize /\ c.n \in Nat

Jobs == [op : {"write", "erase"}, cells : SUBSET (0 .. Size - 1)]

ASSUME NothingAssumption ==
  /\ NoCall \notin Calls /\ NoCall \notin [op : {"write", "read", "erase"}, cells : SUBSET Nat]
  /\ NoJob \notin Jobs

VARIABLES orderly, \* external: clients and memory keep to what NorMemory
                   \* assumes in this behaviour, see ImplementsNor
          at,      \* the next exchange of the call in progress
          call,    \* the arguments of the last call
          off,     \* bytes of a write that are programmed
          timeout, \* the polling has given up
          ret,     \* what the last call returned
          got,     \* the cleared bytes the last read found
          cleared, \* external: the memory
          latch,   \* external: write enable latch
          job,     \* external: the operation in progress
          failed,  \* external: the error bits of the flag status register
          found    \* history: the memory was busy when the call began

driver == <<at, call, off, timeout, ret, got>>
memory == <<cleared, latch, job, failed>>
rest == <<orderly, found>>
flashVars == <<driver, memory, rest>>

FlashInit ==
  /\ at = "idle" /\ call = NoCall /\ off = 0 /\ timeout = FALSE
  /\ ret = 0 /\ got = {}
  /\ cleared = {} /\ latch = FALSE /\ job = NoJob /\ failed = FALSE
  /\ found = FALSE /\ orderly \in BOOLEAN

Busy == job # NoJob

-----------------------------------------------------------------------------
(* The memory: what a command does to it, and the end of an operation.     *)
Accept(op, cells) ==
  job' = IF latch /\ ~Busy THEN [op |-> op, cells |-> cells] ELSE job

Finish(cells, bad) ==
  /\ Busy
  /\ cleared' = IF job.op = "erase" THEN cleared \ cells ELSE cleared \cup cells
  /\ failed' = (failed \/ bad)
  /\ job' = NoJob /\ latch' = FALSE
  /\ UNCHANGED <<driver, rest>>

Complete == Busy /\ Finish(job.cells, FALSE)
Fault ==
  /\ Busy /\ ~orderly /\ "fault" \in Failures
  /\ \E s \in SUBSET job.cells : Finish(s, TRUE)

-----------------------------------------------------------------------------
Continue(step) == at' = step /\ UNCHANGED <<call, off, timeout, ret, got, rest>>
Return(r) == at' = "idle" /\ ret' = r /\ UNCHANGED <<call, off, timeout, got, rest>>

(* A call and its checks.  mt25q_get_max_address is the size.              *)
InRange(c) ==
  /\ c.op = "erase" => \/ c.n < Size \div UnitSize[c.unit]
                       \/ c.unit = "sector" /\ c.n = Size \div UnitSize[c.unit]
  /\ c.op = "read" => c.adr <= Size

FirstStep == [write |-> "wren", read |-> "read", erase |-> "busy"]

(* A write or read inside the memory, a write inside a page; sector        *)
(* numbers that exist, the only ones a check lets pass wrongly.            *)
OnePage(c) == (c.adr % PageSize) + c.len <= PageSize

Kept(c) ==
  /\ c.op \in {"write", "read"} => c.adr + c.len <= Size
  /\ c.op = "write" => OnePage(c)
  /\ c.op = "erase" /\ c.unit = "sector" => c.n < Size \div UnitSize[c.unit]

Begin(c) ==
  /\ at = "idle"
  /\ orderly => Kept(c)
  /\ at' = "check" /\ call' = c /\ off' = 0 /\ timeout' = FALSE /\ got' = {}
  /\ found' = Busy
  /\ UNCHANGED <<orderly, ret, memory>>

Check ==
  /\ at = "check"
  /\ IF InRange(call) THEN Continue(FirstStep[call.op]) ELSE Return(-1)
  /\ UNCHANGED memory

\* mt25q_is_busy; mt25q_gen_program checks the address first.
BusyUnchecked == \* mutant: does not look at the status
  /\ at = "busy"
  /\ IF call.op = "write" /\ call.adr + off > Size
     THEN Return(-1)
     ELSE Continue(IF call.op = "erase" THEN "wren" ELSE "command")
  /\ UNCHANGED memory

IsBusy ==
  /\ at = "busy"
  /\ IF Busy \/ (call.op = "write" /\ call.adr + off > Size)
     THEN Return(-1)
     ELSE Continue(IF call.op = "erase" THEN "wren" ELSE "command")
  /\ UNCHANGED memory

(* mt25q_write_enable: the command, then the latch is read back.           *)
WriteEnable ==
  /\ at = "wren"
  /\ latch' = (latch \/ ~Busy)
  /\ Continue("latch")
  /\ UNCHANGED <<cleared, job, failed>>

ReadLatch ==
  /\ at = "latch"
  /\ IF latch THEN Continue(IF call.op = "erase" THEN "command" ELSE "busy")
              ELSE Return(-1)
  /\ UNCHANGED memory

-----------------------------------------------------------------------------
(* mt25q_write programs to the end of the first page, then page by page.   *)
Aligned == (PageSize - (call.adr % PageSize)) % PageSize

ChunkFromStart == \* mutant: the pages are counted from the start of the data
  IF off + PageSize < call.len THEN PageSize ELSE call.len - off

Chunk ==
  IF off = 0 /\ Aligned > 0
  THEN IF Aligned > call.len THEN call.len ELSE Aligned
  ELSE IF off + PageSize < call.len THEN PageSize ELSE call.len - off

\* The bytes a PROGRAM clears; its address wraps at the end of a page.
InPage(a, k) == (a - (a % PageSize)) + ((a + k) % PageSize)

Zeros(a, n) == {InPage(a, k) % Size : k \in {j \in 0 .. (n - 1) : off + j \in call.zeros}}

Unit(c) ==
  {a % Size : a \in (c.n * UnitSize[c.unit]) .. ((c.n + 1) * UnitSize[c.unit] - 1)}

ProgramUnaligned == \* mutant: the chunks ignore the pages, the memory does not
  /\ at = "command" /\ call.op = "write"
  /\ Accept("write", Zeros(call.adr - (call.adr % PageSize), Chunk))
  /\ Continue("poll")
  /\ UNCHANGED <<cleared, latch, failed>>

Program ==
  /\ at = "command" /\ call.op = "write"
  /\ Accept("write", Zeros(call.adr + off, Chunk))
  /\ Continue("poll")
  /\ UNCHANGED <<cleared, latch, failed>>

Erase ==
  /\ at = "command" /\ call.op = "erase"
  /\ Accept("erase", Unit(call))
  /\ Continue("poll")
  /\ UNCHANGED <<cleared, latch, failed>>

\* At most MT25Q_*_TIMEOUT_MS polls of the status.
Poll ==
  /\ at = "poll"
  /\ ~Busy \/ (~orderly /\ "timeout" \in Failures)
  /\ at' = "flags" /\ timeout' = Busy
  /\ UNCHANGED <<call, off, ret, got, rest, memory>>

(* The flag status register is read and cleared; only a write looks at it. *)
FlagsUnread == \* mutant: a failed PROGRAM is not noticed
  /\ at = "flags"
  /\ failed' = FALSE
  /\ IF timeout
     THEN Return(-1)
     ELSE IF call.op = "write" /\ off + Chunk < call.len
          THEN at' = "busy" /\ off' = off + Chunk /\ UNCHANGED <<call, timeout, ret, got, rest>>
          ELSE Return(0)
  /\ UNCHANGED <<cleared, latch, job>>

Flags ==
  /\ at = "flags"
  /\ failed' = FALSE
  /\ IF timeout \/ (call.op = "write" /\ failed)
     THEN Return(-1)
     ELSE IF call.op = "write" /\ off + Chunk < call.len
          THEN at' = "busy" /\ off' = off + Chunk /\ UNCHANGED <<call, timeout, ret, got, rest>>
          ELSE Return(0)
  /\ UNCHANGED <<cleared, latch, job>>

(* mt25q_read does not look at the status; a busy memory does not answer,  *)
(* and the bytes read are whatever the line holds.                         *)
Range(c) == {(c.adr + k) % Size : k \in 0 .. (c.len - 1)}

Read ==
  /\ at = "read"
  /\ got' \in IF Busy THEN SUBSET Range(call) ELSE {cleared \cap Range(call)}
  /\ at' = "unselect"
  /\ UNCHANGED <<call, off, timeout, ret, rest, memory>>

Unselect == at = "unselect" /\ Return(0) /\ UNCHANGED memory

Driver == \/ Check \/ IsBusy \/ WriteEnable \/ ReadLatch \/ Program \/ Erase
          \/ Poll \/ Flags \/ Read \/ Unselect

FlashNext == Complete \/ Fault \/ Driver \/ \E c \in Calls : Begin(c)

FlashSpec == FlashInit /\ [][FlashNext]_flashVars

-----------------------------------------------------------------------------
Target(c) == {c.adr + k : k \in c.zeros}

(* A write in one page of the memory that is reported as done is in the    *)
(* memory, whatever failed before, unless an operation that timed out was  *)
(* still running when the call began.                                      *)
ReportedIsStored ==
  at = "idle" /\ call # NoCall /\ ret = 0 =>
    (call.op = "write" /\ Kept(call) /\ ~found => Target(call) \subseteq cleared)

(* A write of any length from any address gives each of its bytes to its   *)
(* own cell: no PROGRAM crosses the end of a page, where the memory would  *)
(* go back to the head of it, and a write that is reported as done has     *)
(* sent them all.  Whether the memory took them is ReportedIsStored.       *)
SendsEveryByte ==
  call # NoCall /\ call.op = "write" =>
    /\ at = "command" =>
         Zeros(call.adr + off, Chunk) =
           {(call.adr + j) % Size : j \in call.zeros \cap (off .. off + Chunk - 1)}
    /\ at = "idle" /\ ret = 0 => off + Chunk = call.len

(* A command reaches the memory only when it is ready for one.             *)
CommandFindsReady == at = "command" => ~Busy

(* In an orderly behaviour (calls inside the memory, writes inside a page, *)
(* a memory that ends its operations in time) the driver is a NorMemory.   *)
(* A call takes effect when the memory completes its operation.            *)
Request(c) ==
  [op |-> c.op,
   cells |-> IF c.op = "write" THEN Target(c)
             ELSE IF c.op = "read" THEN Range(c) ELSE Unit(c)]

Nor == INSTANCE NorMemory WITH
         Requests <- {Request(c) : c \in Calls}, NoRequest <- NoCall,
         cleared <- IF orderly THEN cleared ELSE {},
         request <- IF at = "idle" \/ ~orderly THEN NoCall ELSE Request(call),
         done <- orderly /\ (at = "unselect" \/ (at \in {"poll", "flags"} /\ ~Busy)),
         ret <- IF orderly THEN ret ELSE 0,
         got <- IF orderly THEN got ELSE {}
ImplementsNor == Nor!Spec
=============================================================================
