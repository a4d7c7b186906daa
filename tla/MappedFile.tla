------------------------------ MODULE MappedFile ------------------------------
(***************************************************************************)
(* The file an emulator core believes it holds: bytes under a cursor, a    *)
(* prefix of which can be mapped into memory and written there, every      *)
(* store being at once a store to the file.  A sync makes durable what     *)
(* was written, the stores of the present mapping excepted: they count as  *)
(* written when it is unmapped.                                            *)
(***************************************************************************)
EXTENDS Integers, Sequences, ByteSeqs

CONSTANTS Bytes,    (* the bytes stored                                    *)
          Chunks,   (* the byte strings written in one call                *)
          MaxLen    (* bound: length of the file                           *)

VARIABLES state,    (* "open", "closed", "aborted" or "crashed"            *)
          onDisk,   (* whether a sync makes anything durable               *)
          content,  (* the bytes of the file                               *)
          written,  (* the same without the stores of the mapping          *)
          durable,  (* the bytes that survive the machine                  *)
          pos,      (* the cursor                                          *)
          view,     (* the length of the prefix mapped, or NoView          *)
          got       (* the bytes the last read returned                    *)

vars == <<state, onDisk, content, written, durable, pos, view, got>>

NoView == -1

Init ==
  /\ state = "open"
  /\ onDisk \in BOOLEAN
  /\ content \in UNION {[1 .. n -> Bytes] : n \in 0 .. MaxLen}
  /\ written = content
  /\ durable = content
  /\ pos = 0
  /\ view = NoView
  /\ got = <<>>

MoveCursor ==
  /\ state = "open"
  /\ pos' \in Nat
  /\ UNCHANGED <<state, onDisk, content, written, durable, view, got>>

(* Reads and writes are beyond the mapping, if there is one. *)
Write ==
  /\ state = "open"
  /\ view <= pos
  /\ \E chunk \in Chunks : \E k \in 1 .. Len(chunk) :
       /\ content' = Put(content, pos, Prefix(chunk, k))
       /\ written' = Put(written, pos, Prefix(chunk, k))
       /\ pos' = pos + k
  /\ UNCHANGED <<state, onDisk, durable, view, got>>

Read ==
  /\ state = "open"
  /\ view <= pos
  /\ \E k \in 0 .. Len(content) :
       /\ pos + k <= AtLeast(pos, Len(content))
       /\ got' = SubSeq(content, pos + 1, pos + k)
       /\ pos' = pos + k
  /\ UNCHANGED <<state, onDisk, content, written, durable, view>>

Truncate ==
  /\ state = "open"
  /\ \E n \in 0 .. MaxLen :
       /\ view <= n
       /\ content' = Resize(content, n)
       /\ written' = Resize(written, n)
  /\ UNCHANGED <<state, onDisk, durable, pos, view, got>>

Map ==
  /\ state = "open"
  /\ view = NoView
  /\ view' \in 0 .. Len(content)
  /\ UNCHANGED <<state, onDisk, content, written, durable, pos, got>>

Store ==
  /\ state = "open"
  /\ \E i \in 1 .. view, b \in Bytes : content' = [content EXCEPT ![i] = b]
  /\ UNCHANGED <<state, onDisk, written, durable, pos, view, got>>

Unmap ==
  /\ state = "open"
  /\ view # NoView
  /\ written' = content
  /\ view' = NoView
  /\ UNCHANGED <<state, onDisk, content, durable, pos, got>>

(* Unmapping may instead end the process, some of the stores being written. *)
Abort ==
  /\ state = "open"
  /\ onDisk
  /\ state' = "aborted"
  /\ \E k \in 0 .. view - 1 : written' = Put(written, 0, Prefix(content, k))
  /\ content' = written'
  /\ view' = NoView
  /\ UNCHANGED <<onDisk, durable, pos, got>>

Sync ==
  /\ state = "open"
  /\ durable' = IF onDisk THEN written ELSE durable
  /\ UNCHANGED <<state, onDisk, content, written, pos, view, got>>

Close ==
  /\ state = "open"
  /\ view = NoView
  /\ state' = "closed"
  /\ UNCHANGED <<onDisk, content, written, durable, pos, view, got>>

(* The machine goes down, and with it what was not durable. *)
Crash ==
  /\ onDisk
  /\ state # "crashed"
  /\ state' = "crashed"
  /\ content' = durable
  /\ written' = durable
  /\ view' = NoView
  /\ UNCHANGED <<onDisk, durable, pos, got>>

Next ==
  \/ MoveCursor \/ Read \/ Write \/ Truncate
  \/ Map \/ Store \/ Unmap \/ Abort
  \/ Sync \/ Close \/ Crash

Spec == Init /\ [][Next]_vars
=============================================================================
