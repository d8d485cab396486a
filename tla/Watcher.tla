------------------------------ MODULE Watcher -------------------------------
(***************************************************************************)
(* Watcher (enu/watcher.h, enu/fsevent.cpp): the events event_callback     *)
(* makes of a batch of FSEvents records, and the Watcher's life.           *)
(*                                                                         *)
(* The file system and FSEvents are the environment.  A rename leaves two  *)
(* records, of its source and of its target; a record may be merged with   *)
(* the one before it when path and inode agree; the records not delivered  *)
(* yet may be dropped.  On Linux (enu/inotify.cpp) the class is empty and  *)
(* no event is ever told.                                                  *)
(***************************************************************************)
EXTENDS Integers, SequencesExt

CONSTANTS
  Path, Inode,
  MaxOps         \* bound on what happens while the watcher runs

VARIABLES
  life,    \* of the Watcher: "none", "made", "runs", "gone", or "fatal"
  files,   \* the inode at each path that exists
  queue,   \* the records not delivered yet
  told,    \* the events given to the handler
  log,     \* history: what happened while the watcher ran, as events
  seen,    \* history: the inodes recorded while it ran
  excuse   \* history: what FSEvents or the file system did that loses events

vars == <<life, files, queue, told, log, seen, excuse>>

None == "none"
Event(kind, path, dest) == [kind |-> kind, path |-> path, dest |-> dest]

Init ==
  /\ life = "none" /\ queue = <<>> /\ told = <<>>
  /\ files \in {[p \in {q} |-> i] : q \in Path, i \in Inode}
  /\ log = <<>> /\ seen = {} /\ excuse = {}

-----------------------------------------------------------------------------
(* event_callback.                                                         *)

(* The decoded path is a string as long as the largest encoding, so it is  *)
(* the name and then NUL bytes.                                            *)
Decode(p) == [name |-> p, rest |-> "NULs"]
Empty == [name |-> None, rest |-> "nothing"]

(* Mutant: the entry is erased, and not made again, at the target.         *)
ChainedErased(chained, inode, path) ==
  IF inode \in DOMAIN chained THEN Restrict(chained, DOMAIN chained \ {inode})
  ELSE (inode :> path) @@ chained

(* Mutant: the entry of the first record of the inode stays.               *)
ChainedFirst(chained, inode, path) == chained @@ (inode :> path)

(* Where a renamed inode was last seen: a target may be moved again.       *)
Chained(chained, inode, path) == (inode :> path) @@ chained

(* The event that stands for everything in a record, if there is one.      *)
Whole(flags) ==
  IF "root" \in flags THEN "unrecoverable" ELSE IF "dropped" \in flags THEN "sync" ELSE None

(* The events of one record, in the order of the tests; src is where its   *)
(* inode was seen renamed earlier in the batch.  "modified" makes none.    *)
ItemEvents(flags, path, src) ==
  LET told_if(b, e) == IF b THEN <<e>> ELSE <<>>
  IN  told_if("created" \in flags, Event("created", path, Empty))
        \o told_if("renamed" \in flags /\ src # Empty, Event("moved", src, path))
        \o told_if("meta" \in flags, Event("meta", path, Empty))
        \o told_if("removed" \in flags, Event("deleted", path, Empty))

(* One turn of the loop: the events so far and the renamed inodes.         *)
Turn(acc, r) ==
  LET path == Decode(r.path)
      src == IF r.inode \in DOMAIN acc.chained THEN acc.chained[r.inode] ELSE Empty
  IN  IF Whole(r.flags) # None
      THEN [acc EXCEPT !.events = Append(@, Event(Whole(r.flags), Empty, Empty))]
      ELSE [events |-> acc.events \o ItemEvents(r.flags, path, src),
            chained |-> IF "renamed" \in r.flags THEN Chained(acc.chained, r.inode, path)
                        ELSE acc.chained]

event_callback(batch) == FoldLeft(Turn, [events |-> <<>>, chained |-> <<>>], batch).events

(* FSEvents calls back with the oldest records; src marks a record whose   *)
(* rename has its target in the next one.                                  *)
Deliver ==
  /\ life = "runs"
  /\ \E n \in DOMAIN queue :
       /\ told' = told \o event_callback(SubSeq(queue, 1, n))
       /\ queue' = SubSeq(queue, n + 1, Len(queue))
       /\ excuse' = excuse \cup (IF queue[n].src THEN {"split"} ELSE {})
  /\ UNCHANGED <<life, files, log, seen>>

(* watch_dir constructs, starts (handler_ is set before the stream runs)   *)
(* and, at the end of its scope, destroys the Watcher.                     *)
Becomes(now, next) ==
  /\ life = now /\ life' = next
  /\ UNCHANGED <<files, queue, told, log, seen, excuse>>

Construct == Becomes("none", "made")
run_in_thread == Becomes("made", "runs")
Destroy ==
  /\ life = "runs" /\ life' = "gone"
  /\ queue' = <<>>
  /\ UNCHANGED <<files, told, log, seen, excuse>>

(* FSEventStreamCreate, FSEventStreamStart or the decoding of a path fails.*)
Fatal ==
  \/ Becomes("none", "fatal")
  \/ Becomes("made", "fatal")
  \/ queue # <<>> /\ Becomes("runs", "fatal")

-----------------------------------------------------------------------------
(* The environment.                                                        *)

Record(flag, p, i, src) == [flags |-> {flag}, path |-> p, inode |-> i, src |-> src]

(* Record r is new, or merged with the last one.                           *)
Recorded(r) ==
  {Append(queue, r)} \cup
  {[queue EXCEPT ![n] = [@ EXCEPT !.flags = @ \cup r.flags, !.src = r.src]] :
     n \in {k \in {Len(queue)} \cap DOMAIN queue :
              queue[k].path = r.path /\ queue[k].inode = r.inode}}

(* What event stands for happens, and leaves the record r and then rest.   *)
Happens(event, r, rest, why) ==
  /\ Len(log) < MaxOps
  /\ IF life = "runs"
     THEN /\ \E q \in Recorded(r) : queue' = q \o rest
          /\ log' = Append(log, event)
          /\ seen' = seen \cup {r.inode}
          /\ excuse' = excuse \cup why
     ELSE UNCHANGED <<queue, log, seen, excuse>>
  /\ UNCHANGED <<life, told>>

(* A file appears at a free path: created there, or moved in from outside. *)
Appear(kind, flag, p, i) ==
  /\ p \notin DOMAIN files /\ i \notin Range(files)
  /\ Happens(Event(kind, p, None), Record(flag, p, i, FALSE), <<>>,
             (IF i \in seen THEN {"reused"} ELSE {}) \cup (IF kind = "in" THEN {"crossed"} ELSE {}))
  /\ files' = (p :> i) @@ files

(* The file at p is removed, or moved out.                                 *)
Vanish(kind, flag, p) ==
  /\ Happens(Event(kind, p, None), Record(flag, p, files[p], FALSE), <<>>,
             IF kind = "out" THEN {"crossed"} ELSE {})
  /\ files' = Restrict(files, DOMAIN files \ {p})

Change(kind, flag, p) ==
  /\ Happens(Event(kind, p, None), Record(flag, p, files[p], FALSE), <<>>, {})
  /\ UNCHANGED files

(* A file at the target is replaced.                                       *)
Rename(p, q) ==
  /\ Happens(Event("moved", p, q), Record("renamed", p, files[p], TRUE),
             <<Record("renamed", q, files[p], FALSE)>>, {})
  /\ files' = (q :> files[p]) @@ Restrict(files, DOMAIN files \ {p})

(* The directory itself changes, or FSEvents gives up the records it has;  *)
(* each once.                                                              *)
Upset(flag, q) ==
  /\ life = "runs" /\ flag \notin excuse
  /\ queue' = Append(q, Record(flag, None, None, FALSE))
  /\ excuse' = excuse \cup {flag}
  /\ UNCHANGED <<life, files, told, log, seen>>

Next ==
  \/ Construct \/ run_in_thread \/ Deliver \/ Destroy \/ Fatal
  \/ \E p \in Path, i \in Inode : Appear("created", "created", p, i) \/ Appear("in", "renamed", p, i)
  \/ \E p \in DOMAIN files :
       \/ Vanish("deleted", "removed", p) \/ Vanish("out", "renamed", p)
       \/ Change("meta", "meta", p) \/ Change("modify", "modified", p)
       \/ \E q \in Path \ {p} : Rename(p, q)
  \/ Upset("root", queue) \/ Upset("dropped", <<>>)

Spec == Init /\ [][Next]_vars

-----------------------------------------------------------------------------
(* What is told, up to the NULs, without the moves of a file to where it   *)
(* is (a record that ends one move and begins the next, recorded twice).   *)
Told ==
  LET named == [k \in DOMAIN told |-> Event(told[k].kind, told[k].path.name, told[k].dest.name)]
  IN  SelectSeq(named, LAMBDA e : e.path # e.dest)

(* Equal events in a row count once: their records may have been merged.   *)
Once(s) == FoldLeft(LAMBDA t, e : IF t # <<>> /\ Last(t) = e THEN t ELSE Append(t, e), <<>>, s)

(* event_callback invents nothing, whatever the cuts between batches: as   *)
(* long as no inode is used again, every item event it tells happened, and *)
(* a moved event pairs the two ends of one rename.                         *)
TellsTruth == "reused" \notin excuse => Range(Told) \subseteq Range(log)

(* event_callback misses nothing but modifications when the watched        *)
(* directory is closed under renames, no batch ends between the two        *)
(* records of a rename and no inode is used again: it tells what happened, *)
(* in order.  When records were dropped it has told to resynchronise, and  *)
(* when the root changed (and its record was not dropped) to give up.      *)
TellsAll ==
  life = "runs" /\ queue = <<>> =>
    /\ excuse = {} => Once(Told) = Once(SelectSeq(log, LAMBDA e : e.kind # "modify"))
    /\ "dropped" \in excuse => Event("sync", Empty, Empty) \in Range(told)
    /\ {"root", "dropped"} \cap excuse = {"root"} => Event("unrecoverable", Empty, Empty) \in Range(told)
=============================================================================
