-------------------------------- MODULE VFile --------------------------------
(***************************************************************************)
(* src/vfile.rs: a Rust file or byte vector behind the C core's VFile      *)
(* table.  Mapping copies a prefix of the file into a buffer and unmapping *)
(* writes the buffer back, so the mapping is the shared memory of          *)
(* MappedFile only while the C side has one mapping at a time and reads,   *)
(* writes and truncates only beyond it; syncs and seeks are free.          *)
(***************************************************************************)
EXTENDS Integers, Sequences, ByteSeqs

CONSTANTS
  Kinds,       (* the back ends: of "file", "readonly" (from_file, of a    *)
               (* file opened for reading only) and "vec" (from_vec)       *)
  Faults,      (* whether a read, write or sync of a file may fail         *)
  Bytes,       (* the bytes stored                                         *)
  Chunks,      (* the byte strings the C side writes                       *)
  Starts,      (* offsets sought from the start                            *)
  Offsets,     (* offsets sought from the cursor and from the end          *)
  MaxLen,      (* bound: length of the file, and of the gap before a write *)
  Half         (* 2^63, or a smaller stand-in for it                       *)

Modulus == 2 * Half

ASSUME KindAssumption ==
  Kinds \subseteq {"file", "readonly", "vec"} /\ Faults \in BOOLEAN

ASSUME DataAssumption ==
  /\ Bytes \subseteq Nat /\ 0 \in Bytes
  /\ Chunks \subseteq Seq(Bytes)
  /\ MaxLen \in Nat /\ Half \in Nat /\ MaxLen < Half
  /\ Starts \subseteq -Half .. Half - 1 /\ Offsets \subseteq -Half .. Half - 1

VARIABLES
  kind,        (* the back end                                             *)
  state,       (* "open", "closed", "aborted" by a panic, or "crashed"     *)
  bytes,       (* what the back end holds                                  *)
  disk,        (* what of it would survive the machine                     *)
  pos,         (* the back end's cursor                                    *)
  mapped,      (* whether the C side has a mapping                         *)
  buf,         (* the buffer vfile_map handed out                          *)
  got,         (* the bytes the last read returned                         *)
  ret          (* the value the last call returned, 0 for null and false   *)

vars == <<kind, state, bytes, disk, pos, mapped, buf, got, ret>>

Open == state = "open"

OnDisk == kind # "vec"

CanWrite == kind # "readonly"

CanFail == OnDisk /\ Faults

Init ==
  /\ kind \in Kinds
  /\ state = "open"
  /\ bytes \in UNION {[1 .. n -> Bytes] : n \in 0 .. MaxLen}
  /\ disk = bytes
  /\ pos = 0
  /\ mapped = FALSE
  /\ buf = <<>>
  /\ got = <<>>
  /\ ret = 0

-----------------------------------------------------------------------------
(* vfile_seek.  SeekFrom::Start takes the offset as a u64.  A Cursor has   *)
(* any u64 for a position, a file those an off_t holds; another is an      *)
(* error.  A position is returned as an off_t, so that some of a Cursor's  *)
(* come back negative.                                                     *)
AsU64(offset) == IF offset < 0 THEN offset + Modulus ELSE offset
AsOff(p) == IF p < Half THEN p ELSE p - Modulus

Positions == 0 .. (IF kind = "vec" THEN Modulus ELSE Half) - 1

Unchecked(p) == pos' = p /\ ret' = AsOff(p)        \* slip: any position is taken
MoveTo(p) ==
  IF p \in Positions THEN pos' = p /\ ret' = AsOff(p) ELSE pos' = pos /\ ret' = -1

SeekStart(offset) ==
  /\ Open
  /\ MoveTo(AsU64(offset))
  /\ UNCHANGED <<kind, state, bytes, disk, mapped, buf, got>>

SeekFrom(base, offset) ==
  /\ Open
  /\ MoveTo(base + offset)
  /\ UNCHANGED <<kind, state, bytes, disk, mapped, buf, got>>

(* ... by a whence that is none of the three. *)
SeekUnknown ==
  /\ Open
  /\ ret' = -1
  /\ UNCHANGED <<kind, state, bytes, disk, pos, mapped, buf, got>>

(* vfile_read: a file may return fewer bytes than it has. *)
Read(n) ==
  /\ Open
  /\ Len(buf) <= pos
  /\ \E k \in 0 .. n :
       /\ k <= AtLeast(0, Len(bytes) - pos)
       /\ kind = "vec" => k = n \/ pos + k >= Len(bytes)
       /\ k = 0 => n = 0 \/ pos >= Len(bytes)
       /\ got' = SubSeq(bytes, pos + 1, pos + k)
       /\ pos' = pos + k
       /\ ret' = k
  /\ UNCHANGED <<kind, state, bytes, disk, mapped, buf>>

ReadFails ==
  /\ Open
  /\ Len(buf) <= pos
  /\ CanFail
  /\ ret' = -1
  /\ UNCHANGED <<kind, state, bytes, disk, pos, mapped, buf, got>>

(* vfile_write: all of the chunk for a vector, some of it for a file. *)
Write(chunk) ==
  /\ Open
  /\ Len(buf) <= pos
  /\ CanWrite
  /\ pos + Len(chunk) <= MaxLen
  /\ \E k \in 1 .. Len(chunk) :
       /\ kind = "vec" => k = Len(chunk)
       /\ bytes' = Put(bytes, pos, Prefix(chunk, k))
       /\ pos' = pos + k
       /\ ret' = k
  /\ UNCHANGED <<kind, state, disk, mapped, buf, got>>

WriteFails ==
  /\ Open
  /\ ~CanWrite \/ CanFail
  /\ ret' = -1
  /\ UNCHANGED <<kind, state, bytes, disk, pos, mapped, buf, got>>

(* vfile_truncate, whose error is dropped. *)
Truncate(n) ==
  /\ Open
  /\ Len(buf) <= n
  /\ \/ CanWrite /\ bytes' = Resize(bytes, n)
     \/ (~CanWrite \/ CanFail) /\ bytes' = bytes
  /\ ret' = 0
  /\ UNCHANGED <<kind, state, disk, pos, mapped, buf, got>>

(* vfile_size, vfile_map and vfile_unmap move the cursor and put it back.  *)
LeftThere(saved, reached) == reached       \* slip: no seek back
SeekBack(saved, reached) == saved

Size ==
  /\ Open
  /\ ret' = Len(bytes)
  /\ pos' = SeekBack(pos, Len(bytes))
  /\ UNCHANGED <<kind, state, bytes, disk, mapped, buf, got>>

-----------------------------------------------------------------------------
(* vfile_map: a copy of the first size bytes, or null when there are not   *)
(* so many or reading them fails, some having been read.                   *)
ShortCopy(size) == size - 1 <= Len(bytes)  \* slip: the read may come short
HasPrefix(size) == size <= Len(bytes)

Map(size) ==
  /\ Open
  /\ ~mapped
  /\ HasPrefix(size)
  /\ mapped' = TRUE
  /\ buf' = Resize(bytes, size)
  /\ ret' = 1
  /\ pos' = SeekBack(pos, size)
  /\ UNCHANGED <<kind, state, bytes, disk, got>>

MapFails(size) ==
  /\ Open
  /\ ~mapped
  /\ ~HasPrefix(size) \/ (CanFail /\ size > 0)
  /\ ret' = 0
  /\ \E reached \in 0 .. Len(bytes) : pos' = SeekBack(pos, reached)
  /\ UNCHANGED <<kind, state, bytes, disk, mapped, buf, got>>

(* The C side stores into the buffer: no call of this file. *)
Store(i, b) ==
  /\ Open
  /\ buf' = [buf EXCEPT ![i] = b]
  /\ UNCHANGED <<kind, state, bytes, disk, pos, mapped, got, ret>>

(* vfile_unmap: the buffer is written over the start of the file, whatever *)
(* it was mapped for.                                                      *)
WriteBackAtCursor == Put(bytes, pos, buf)  \* slip: no seek to 0
WriteBack == Put(bytes, 0, buf)

Unmap ==
  /\ Open
  /\ mapped
  /\ CanWrite \/ buf = <<>>
  /\ bytes' = WriteBack
  /\ mapped' = FALSE
  /\ buf' = <<>>
  /\ ret' = 0
  /\ pos' = SeekBack(pos, Len(buf))
  /\ UNCHANGED <<kind, state, disk, got>>

(* Its assertion fails when the write does, and no panic leaves an extern  *)
(* "C" function: some of the buffer is written, and the process ends.      *)
UnmapAborts ==
  /\ Open
  /\ ~CanWrite \/ CanFail
  /\ \E k \in 0 .. Len(buf) - 1 :
       /\ ~CanWrite => k = 0
       /\ bytes' = Put(bytes, 0, Prefix(buf, k))
  /\ state' = "aborted"
  /\ mapped' = FALSE
  /\ buf' = <<>>
  /\ UNCHANGED <<kind, disk, pos, got, ret>>

(* vfile_sync, of the back end and not of the buffer it is handed. *)
Sync ==
  /\ Open
  /\ disk' = IF OnDisk THEN bytes ELSE disk
  /\ ret' = 1
  /\ UNCHANGED <<kind, state, bytes, pos, mapped, buf, got>>

SyncFails ==
  /\ Open
  /\ CanFail
  /\ ret' = 0
  /\ UNCHANGED <<kind, state, bytes, disk, pos, mapped, buf, got>>

Close ==
  /\ Open
  /\ ~mapped
  /\ state' = "closed"
  /\ ret' = 1
  /\ UNCHANGED <<kind, bytes, disk, pos, mapped, buf, got>>

(* The machine goes down; what is on disk is what is left. *)
Crash ==
  /\ Open
  /\ OnDisk
  /\ state' = "crashed"
  /\ bytes' = disk
  /\ mapped' = FALSE
  /\ buf' = <<>>
  /\ UNCHANGED <<kind, disk, pos, got, ret>>

Next ==
  \/ \E offset \in Starts : SeekStart(offset)
  \/ \E offset \in Offsets : SeekFrom(pos, offset) \/ SeekFrom(Len(bytes), offset)
  \/ SeekUnknown
  \/ \E n \in 0 .. MaxLen : Read(n)
  \/ ReadFails
  \/ \E chunk \in Chunks : Write(chunk)
  \/ WriteFails
  \/ \E n \in 0 .. MaxLen : Truncate(n)
  \/ Size
  \/ \E size \in 0 .. MaxLen : Map(size) \/ MapFails(size)
  \/ \E b \in Bytes : \E i \in DOMAIN buf : Store(i, b)
  \/ Unmap
  \/ UnmapAborts
  \/ Sync
  \/ SyncFails
  \/ Close
  \/ Crash

Spec == Init /\ [][Next]_vars

-----------------------------------------------------------------------------
(* The shape of every variable; the cursor is one its back end can have,   *)
(* whatever is sought.                                                     *)
Shape ==
  /\ kind \in Kinds
  /\ state \in {"open", "closed", "aborted", "crashed"}
  /\ bytes \in Seq(Bytes) /\ disk \in Seq(Bytes) /\ got \in Seq(Bytes)
  /\ pos \in Nat
  /\ mapped \in BOOLEAN
  /\ buf \in Seq(Bytes) /\ (~mapped => buf = <<>>)
  /\ ret \in Int

TypeOK == Shape /\ pos \in Positions

(* A mapping never reaches past the end of the file it will be written     *)
(* over, so unmapping never grows the file.                                *)
MappingFits == Len(buf) <= Len(bytes)

(* What the core takes the file to hold: the buffer where there is one,    *)
(* the back end beyond it.                                                 *)
Memory == INSTANCE MappedFile WITH
  onDisk <- OnDisk,
  content <- Put(bytes, 0, buf), written <- bytes, durable <- disk,
  view <- IF mapped THEN Len(buf) ELSE -1

(* For a C side that keeps its reads, writes and truncations beyond the    *)
(* one mapping it has, the copy in and the write back of vfile_map and     *)
(* vfile_unmap pass for shared memory and leave the cursor where it was;   *)
(* and vfile_sync, which ignores the buffer, makes durable all but the     *)
(* stores not yet unmapped.                                                *)
ImplementsMapped == Memory!Spec
=============================================================================
