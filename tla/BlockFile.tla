------------------------------- MODULE BlockFile -------------------------------
(***************************************************************************)
(* The two files of a KVCacheStore: blocks.kvssd, fixed-size records one   *)
(* after the other, and manifest.json, which says where each block is.     *)
(* KVCacheStore.create truncates and rewrites both in place.  The file is  *)
(* a sequence of 4096-byte pages; a record is one or more of them, the     *)
(* header and its CRC in the first.                                        *)
(***************************************************************************)
EXTENDS Integers, Sequences, FiniteSets

CONSTANTS Shapes,            \* the specs and token counts that create may get
          Absent, Broken,    \* manifest.json is missing, or is no JSON
          Hole,              \* a page whose content a power loss took
          MaxCreates,        \* bound: calls of create
          MaxPowerFails      \* bound: power losses

(* A shape has the number of layers and of blocks per layer, the layout    *)
(* (bits, block_tokens, kv_heads, head_dim, group_size: what a header      *)
(* repeats) and the pages of a record, which the layout determines.        *)
ASSUME ShapesAssumption ==
    /\ \A s \in Shapes : s.layers \in Nat \ {0} /\ s.blocks \in Nat /\ s.pages \in Nat \ {0}
    /\ \A s, r \in Shapes : s.layout = r.layout => s.pages = r.pages
    /\ Absent \notin Nat /\ Broken \notin Nat /\ Absent # Broken
    /\ MaxCreates \in Nat /\ MaxPowerFails \in Nat

VARIABLES made,              \* made[g]: the shape of the g-th call of create
          pages,             \* the content of blocks.kvssd
          epoch,             \* the create whose file it is, 0 if there is none to rely on
          manifest,          \* the create that manifest.json is of, Absent or Broken
          stage, next,       \* where the running create stands, its next record
          buffer,            \* pages in the buffer of its output file
          powerFails

fileVars == <<made, pages, epoch, manifest, stage, next, buffer, powerFails>>

Records(g) == made[g].layers * made[g].blocks

(* Record i of a create, layer after layer: where it is, what it is.  With  *)
(* output.tell() taken behind the write it would be one record further.    *)
OffsetAfterWrite(g, i) == (i + 1) * made[g].pages

Offset(g, i) == i * made[g].pages

RecordPages(g, i) ==
    [p \in 1..made[g].pages |-> [create |-> g, record |-> i, part |-> p]]

Page == [create : 1..MaxCreates, record : Nat, part : Nat]

FileTypeOK ==
    /\ made \in Seq(Shapes) /\ Len(made) <= MaxCreates
    /\ pages \in Seq(Page \cup {Hole})
    /\ epoch \in 0..Len(made)
    /\ manifest \in (1..Len(made)) \cup {Absent, Broken}
    /\ stage \in {"idle", "writing", "closed", "saving"}
    /\ next \in Nat
    /\ buffer \in Seq(Page)
    /\ powerFails \in 0..MaxPowerFails

FileInit ==
    /\ made = <<>>
    /\ pages = <<>>
    /\ epoch = 0
    /\ manifest = Absent
    /\ stage = "idle" /\ next = 0
    /\ buffer = <<>>
    /\ powerFails = 0

(* The checks passed; open("wb") empties the file, whoever has it open. *)
CreateBegins(s) ==
    /\ stage = "idle"
    /\ Len(made) < MaxCreates
    /\ made' = Append(made, s)
    /\ pages' = <<>>
    /\ epoch' = Len(made) + 1
    /\ stage' = "writing" /\ next' = 0
    /\ UNCHANGED <<manifest, buffer, powerFails>>

(* One turn of the loop: quantize_tensor, encode_record, output.write.     *)
(* What the buffer (8 KiB, two pages) already holds goes to the file first.*)
WriteRecord ==
    /\ stage = "writing"
    /\ next < Records(Len(made))
    /\ buffer = <<>>
    /\ buffer' = buffer \o RecordPages(Len(made), next)
    /\ next' = next + 1
    /\ UNCHANGED <<made, pages, epoch, manifest, stage, powerFails>>

(* The buffer reaches the file page by page, at any time after the write. *)
FlushPage ==
    /\ buffer # <<>>
    /\ pages' = Append(pages, Head(buffer))
    /\ buffer' = Tail(buffer)
    /\ UNCHANGED <<made, epoch, manifest, stage, next, powerFails>>

(* Closing the file behind the with block, before it is flushed. *)
CloseOutputUnflushed ==
    /\ stage = "writing"
    /\ next = Records(Len(made))
    /\ stage' = "closed"
    /\ UNCHANGED <<made, pages, epoch, manifest, next, buffer, powerFails>>

(* The end of the with block flushes what is left and closes the file. *)
CloseOutput ==
    /\ stage = "writing"
    /\ next = Records(Len(made))
    /\ buffer = <<>>
    /\ stage' = "closed"
    /\ UNCHANGED <<made, pages, epoch, manifest, next, buffer, powerFails>>

(* Manifest.save is write_text: it empties the file, then writes it. *)
TruncateManifest ==
    /\ stage = "closed"
    /\ manifest' = Broken
    /\ stage' = "saving"
    /\ UNCHANGED <<made, pages, epoch, next, buffer, powerFails>>

SaveManifest ==
    /\ stage = "saving"
    /\ manifest' = Len(made)
    /\ stage' = "idle" /\ next' = 0
    /\ UNCHANGED <<made, pages, epoch, buffer, powerFails>>

(* create raises (a full disk, a spec that quantize_tensor refuses) or its *)
(* process dies; what is still in the buffer is lost.                      *)
CreateStops ==
    /\ stage # "idle"
    /\ buffer' = <<>>
    /\ stage' = "idle" /\ next' = 0
    /\ UNCHANGED <<made, pages, epoch, manifest, powerFails>>

(* Nothing is fsynced: a power loss may cut the file or lose a page of it  *)
(* (bound: one), and lose the manifest's text.                             *)
PowerFails ==
    /\ powerFails < MaxPowerFails
    /\ powerFails' = powerFails + 1
    /\ \/ \E n \in 0..Len(pages) : pages' = SubSeq(pages, 1, n)
       \/ \E lost \in 1..Len(pages) : pages' = [pages EXCEPT ![lost] = Hole]
    /\ epoch' = 0
    /\ manifest' \in {manifest, IF manifest = Absent THEN Absent ELSE Broken}
    /\ stage' = "idle" /\ next' = 0 /\ buffer' = <<>>
    /\ UNCHANGED made

CreateNext ==
    \/ \E s \in Shapes : CreateBegins(s)
    \/ WriteRecord \/ FlushPage \/ CloseOutput \/ TruncateManifest \/ SaveManifest
    \/ CreateStops
===============================================================================
