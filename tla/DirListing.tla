----------------------------- MODULE DirListing -----------------------------
(***************************************************************************)
(* One directory listed by the kernel while requests change it.            *)
(*                                                                         *)
(* The kernel lists a directory in pages: each readdir(ino, offset) sends  *)
(* the entries of the dir map from position `offset` on, in the map's      *)
(* iteration order (Driver::readdir, entries.iter_from), and ElmerFs       *)
(* stamps the i-th entry it adds to the reply with offset + i + 1 until    *)
(* the reply buffer is full.  The kernel asks again from the offset of     *)
(* the last entry it got, and stops at an empty reply.  Each page is one   *)
(* transaction under the shared dir lock, so it reads one snapshot; the    *)
(* commits of mkdir, mknod, symlink, link (add_entry), unlink, rmdir      *)
(* (remove_entry) and a rename within the directory run between pages.   *)
(* An offset is a position in the map, not a name.                         *)
(***************************************************************************)
EXTENDS Naturals, Sequences, FiniteSets

CONSTANTS
  Dot,         \* the "." entry dir::create seeds
  Names,       \* names requests create and remove (model values)
  Order,       \* the dir map's iteration order over Names \cup {Dot}
  Cap,         \* entries the kernel's reply buffer holds
  MaxChanges   \* commits that change the directory

ASSUME Cap \in Nat \ {0} /\ MaxChanges \in Nat
ASSUME /\ Order \in Seq(Names \cup {Dot})
       /\ {Order[k] : k \in DOMAIN Order} = Names \cup {Dot}
       /\ Len(Order) = Cardinality(Names \cup {Dot})

VARIABLES
  entries,   \* names the dir map holds
  changes,   \* commits that changed it so far
  reader     \* the kernel's directory stream

vars == <<entries, changes, reader>>

(* The kernel's stream: pc, the offset it asks from, the names it got, and *)
(* (ghost) the names present since opendir and never removed since.        *)
Closed == [pc |-> "closed", off |-> 0, got |-> {}, keep |-> {}]

(* dir::decode, then entries.iter_from(offset): the map in iteration order *)
(* from position offset on.                                                *)
Listed(es) == SelectSeq(Order, LAMBDA n : n \in es)

IterFrom(es, off) ==
  IF off >= Len(Listed(es)) THEN <<>>
  ELSE SubSeq(Listed(es), off + 1, Len(Listed(es)))

(* reply.add until full: the first Cap entries of what readdir returned.  *)
Page(es, off) ==
  IF Len(IterFrom(es, off)) <= Cap THEN IterFrom(es, off)
  ELSE SubSeq(IterFrom(es, off), 1, Cap)

(* Mutant of NextOffset: the offset advanced by the buffer size.          *)
NextOffsetByCap(off, page) == off + Cap

(* Mutant of NextOffset: the last entry stamped with offset + i.           *)
NextOffsetOfLast(off, page) == off + Len(page) - 1

(* fs.rs readdir: the offset the kernel asks from next is the one stamped *)
(* on the last entry it got, offset + i + 1.                               *)
NextOffset(off, page) == off + Len(page)

Init ==
  /\ entries = {Dot}
  /\ changes = 0
  /\ reader = Closed

-----------------------------------------------------------------------------
(* opendir: a getattr; the stream starts at offset 0.                      *)
OpenDir ==
  /\ reader.pc = "closed"
  /\ reader' = [pc |-> "list", off |-> 0, got |-> {}, keep |-> entries]
  /\ UNCHANGED <<entries, changes>>

(* readdir(ino, offset): one snapshot of the dir map; an empty page ends  *)
(* the listing.                                                            *)
ReadDir ==
  /\ reader.pc = "list"
  /\ LET page == Page(entries, reader.off)
     IN IF page = <<>>
        THEN reader' = [reader EXCEPT !.pc = "done"]
        ELSE reader' = [reader EXCEPT !.off = NextOffset(reader.off, page),
                                      !.got = @ \cup {page[k] : k \in DOMAIN page}]
  /\ UNCHANGED <<entries, changes>>

(* releasedir: a getattr; the stream is dropped.                           *)
ReleaseDir ==
  /\ reader.pc = "done"
  /\ reader' = Closed
  /\ UNCHANGED <<entries, changes>>

(* mkdir, mknod, symlink, link, or a rename into this directory commits  *)
(* dir::add_entry.                                                         *)
AddEntry(n) ==
  /\ changes < MaxChanges
  /\ n \notin entries
  /\ entries' = entries \cup {n}
  /\ changes' = changes + 1
  /\ UNCHANGED reader

(* unlink, rmdir, or a rename out of this directory commits               *)
(* dir::remove_entry.                                                      *)
RemoveEntry(n) ==
  /\ changes < MaxChanges
  /\ n \in entries
  /\ entries' = entries \ {n}
  /\ changes' = changes + 1
  /\ reader' = [reader EXCEPT !.keep = @ \ {n}]

(* rename within the directory to a free name: remove_entry and add_entry *)
(* in one commit.                                                          *)
RenameEntry(n, n2) ==
  /\ changes < MaxChanges
  /\ n \in entries /\ n2 \notin entries
  /\ entries' = (entries \ {n}) \cup {n2}
  /\ changes' = changes + 1
  /\ reader' = [reader EXCEPT !.keep = @ \ {n}]

Next ==
  \/ OpenDir \/ ReadDir \/ ReleaseDir
  \/ \E n \in Names : AddEntry(n) \/ RemoveEntry(n)
  \/ \E n, n2 \in Names : RenameEntry(n, n2)

Spec == Init /\ [][Next]_vars

(* The application reads the directory to its end: the kernel keeps       *)
(* sending readdir while the stream is open (WF); tokio runs each one.     *)
FairSpec == Spec /\ WF_vars(ReadDir)

-----------------------------------------------------------------------------
TypeOK ==
  /\ entries \subseteq Names \cup {Dot} /\ Dot \in entries
  /\ changes \in 0..MaxChanges
  /\ reader.pc \in {"closed", "list", "done"}
  /\ reader.off \in 0..Len(Order)
  /\ reader.got \cup reader.keep \subseteq Names \cup {Dot}

(* Every listing the kernel starts ends: each readdir either returns an    *)
(* empty page or moves the offset past what it returned, whatever the      *)
(* commits between pages do (fs.rs stamps offset + i + 1).                 *)
ListingCompletes == reader.pc = "list" ~> reader.pc = "done"

(* POSIX readdir: an entry present when the directory was opened and      *)
(* never removed while it is listed is returned.  Offsets are positions   *)
(* in the map (iter_from), so a remove_entry of a name before the offset  *)
(* between two pages shifts the later names back past it.                 *)
NoStableEntrySkipped ==
  reader.pc = "done" => reader.keep \subseteq reader.got

====
