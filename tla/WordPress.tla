----------------------------- MODULE WordPress ------------------------------
(***************************************************************************)
(* The WordPress connector over a live site, and the chains of incremental *)
(* backups it is driven through (examples/wordpress-client/main.go;        *)
(* sdk.go, doBackup and doRestore).                                        *)
(*                                                                         *)
(* A backup dumps the database at one instant and then walks wp-content,   *)
(* file by file, while the site goes on changing.  A delta skips files     *)
(* whose modification time is not after the cursor.  CBS keeps the cursor  *)
(* of the last incremental backup and the chain of each backup.  A restore *)
(* applies the chain, base first: load the dump, clear wp-content (base    *)
(* only), extract, flush the object cache.                                 *)
(*                                                                         *)
(* Abstractions.  The content of a file is a version; two writes of a file *)
(* are two versions.  A copy reads one version.  A size is known only      *)
(* relative to the one in the header.  Walk visits files by name; here it  *)
(* visits them in any order.  There is one clock, its unit the resolution  *)
(* of modification times, and a dump takes longer than that (DumpTakes).   *)
(* wp-content has a directory, so a full stream has content.  Members go   *)
(* by what they are, the dump or a file; the names older builds gave them  *)
(* are left out.  The data plane either moves a whole stream or fails      *)
(* (BackupPipe, RestorePipe).                                              *)
(***************************************************************************)
EXTENDS Integers, Sequences

CONSTANTS
    Content,        \* files that are backed up
    Excluded,       \* files below a directory of WP_EXCLUDE
    MaxVersion,     \* bound: changes of the site
    MaxClock,       \* bound: clock
    MaxBackups,     \* bound: backups recorded as done
    MaxRestores     \* bound: restores begun

ASSUME FilesAssumption ==
    Content \cap Excluded = {} /\ "db" \notin Content \cup Excluded
ASSUME BoundsAssumption ==
    /\ MaxVersion \in Nat /\ MaxClock \in Nat \ {0}
    /\ MaxBackups \in Nat /\ MaxRestores \in Nat

File == Content \cup Excluded

Absent  == 0        \* version of a file that does not exist
Torn    == -1       \* a file, or the database, of which only a part was written
NotIn   == -2       \* the stream has no such member
Unseen  == -3       \* the backup makes no claim about the file
Version == 1..(MaxVersion + 1)
Held    == Version \cup {Torn}

NoCursor == 0
NoFile   == "none"
Foreign  == 0       \* id of a backup of another data type
Id       == 1..MaxBackups

VARIABLES
    live,       \* wp-content: version and modification time of each file;
                \*   old: the time was set back by whoever put it there
    db,         \* the database's version
    cache,      \* the version the object cache serves, 0 for none
    now,        \* the clock
    changes,    \* changes of the site so far
    count,      \* CBS: backups recorded as done
    backups,    \* CBS and store: what is recorded of each
    tip,        \* CBS: the last incremental backup
    cursor,     \* CBS: its cursor
    pc,         \* execute: where it is
    since,      \* backup: write only files modified after it
    next,       \* backup: the cursor to be returned
    sdb,        \* backup: the dump in the stream
    todo,       \* files that Walk, or the tar reader, has still to visit
    stream,     \* backup: members written so far
    seen,       \* backup: history, version of each file when it was visited
    hdr,        \* backup: file and version of the header just written
    short,      \* backup: the last member has fewer bytes than its header says
    chain,      \* restore: ids to apply
    pos,        \* restore: position in chain
    loaded,     \* restore: dbApplied
    cleared,    \* restore: clearOnce has run
    flushed,    \* restore: the last flush succeeded
    touched,    \* history: files the site itself changed since the start
    restores    \* restores begun

siteVars    == <<live, db, cache, changes>>
cbsVars     == <<count, backups, tip, cursor>>
backupVars  == <<since, next, sdb, stream, seen, hdr, short>>
restoreVars == <<chain, pos, loaded, cleared, flushed, touched, restores>>
vars == <<siteVars, now, cbsVars, pc, todo, backupVars, restoreVars>>

Gone   == [ver |-> Absent, mtime |-> 0, old |-> FALSE]
First  == [ver |-> 1, mtime |-> 0, old |-> FALSE]
NoHdr  == [file |-> NoFile, ver |-> Absent]
Empty  == [f \in File |-> NotIn]
Unread == [f \in File |-> Unseen]
Blank  == [members |-> Empty, db |-> 0, delta |-> FALSE, chain |-> <<>>,
           torn |-> FALSE, image |-> [f \in File |-> Absent], seen |-> Unread]
\* A backup of another data type, with or without members below files/.
Alien  == [Blank EXCEPT !.members = [f \in File |->
                                       IF f \in Content THEN 1 ELSE NotIn]]

Init ==
    /\ live \in [File -> {Gone, First}]
    /\ db = 1 /\ cache = 1 /\ changes = 1 /\ now = 1
    /\ count = 0
    /\ backups = [b \in Id \cup {Foreign} |->
                    IF b = Foreign THEN Alien ELSE Blank]
    /\ tip = 0 /\ cursor = NoCursor
    /\ pc = "idle" /\ todo = {}
    /\ since = NoCursor /\ next = 0 /\ sdb = 0
    /\ stream = Empty /\ seen = Unread /\ hdr = NoHdr /\ short = FALSE
    /\ chain = <<>> /\ pos = 0 /\ loaded = FALSE /\ cleared = FALSE
    /\ flushed = FALSE /\ touched = {} /\ restores = 0

-----------------------------------------------------------------------------
(* The site, its users and its host: external.                              *)

Restoring == pc \in {"read", "flush", "restored"}
Touch(x)  == touched' = IF Restoring THEN touched \cup {x} ELSE touched
Spend     == changes <= MaxVersion /\ changes' = changes + 1

Change(f) ==
    /\ Spend /\ Touch(f)
    /\ live' = [live EXCEPT ![f] =
                  [ver |-> changes + 1, mtime |-> now, old |-> FALSE]]
    /\ UNCHANGED <<db, cache, now, cbsVars, pc, todo, backupVars, chain, pos,
                   loaded, cleared, flushed, restores>>

\* A file arrives with a modification time of the past: an unpacked plugin,
\* a copy that keeps times.
Arrive(f) ==
    /\ Spend /\ Touch(f)
    /\ live' = [live EXCEPT ![f] =
                  [ver |-> changes + 1, mtime |-> 0, old |-> TRUE]]
    /\ UNCHANGED <<db, cache, now, cbsVars, pc, todo, backupVars, chain, pos,
                   loaded, cleared, flushed, restores>>

Remove(f) ==
    /\ live[f].ver # Absent /\ Spend /\ Touch(f)
    /\ live' = [live EXCEPT ![f] = Gone]
    /\ UNCHANGED <<db, cache, now, cbsVars, pc, todo, backupVars, chain, pos,
                   loaded, cleared, flushed, restores>>

\* WordPress writes to its database and drops what the cache holds of it.
ChangeDB ==
    /\ Spend /\ Touch("db")
    /\ db' = changes + 1 /\ cache' = 0
    /\ UNCHANGED <<live, now, cbsVars, pc, todo, backupVars, chain, pos,
                   loaded, cleared, flushed, restores>>

\* WordPress reads through the object cache.
Serve ==
    /\ cache = 0 /\ cache' = db
    /\ UNCHANGED <<live, db, changes, now, cbsVars, pc, todo, backupVars,
                   restoreVars>>

Tick ==
    /\ now < MaxClock /\ now' = now + 1
    /\ UNCHANGED <<siteVars, cbsVars, pc, todo, backupVars, restoreVars>>

Site == ChangeDB \/ Serve \/ Tick
        \/ \E f \in File : Change(f) \/ Arrive(f) \/ Remove(f)

-----------------------------------------------------------------------------
(* Backup.                                                                  *)

Goto(from, to) == pc = from /\ pc' = to

NoBackup ==
    /\ since' = NoCursor /\ next' = NoCursor /\ sdb' = 0
    /\ stream' = Empty /\ seen' = Unread /\ hdr' = NoHdr /\ short' = FALSE

Overlay(image, members) ==
    [f \in File |-> IF members[f] = NotIn THEN image[f] ELSE members[f]]

\* Mutation: the cursor is rounded up.
StartRoundedUp ==
    /\ Goto("idle", "dump")
    /\ count < MaxBackups
    /\ since' = cursor /\ next' = now + 1
    /\ UNCHANGED <<siteVars, now, cbsVars, todo, sdb, stream, seen, hdr, short,
                   restoreVars>>

\* doBackup: a full command, or an incremental one that carries the cursor CBS
\* has, if any.  BackupIncremental takes the next cursor before it writes.
StartBackup ==
    /\ Goto("idle", "dump")
    /\ count < MaxBackups
    /\ \/ since' = NoCursor /\ next' = NoCursor
       \/ since' = cursor /\ next' = now
    /\ UNCHANGED <<siteVars, now, cbsVars, todo, sdb, stream, seen, hdr, short,
                   restoreVars>>

\* An assumption about time, not a test of the code: modification times are
\* finer than the time it takes to dump the database.
DumpTakes == now > next

Dump ==
    /\ Goto("dump", "list")
    /\ DumpTakes
    /\ sdb' = db
    /\ UNCHANGED <<siteVars, now, cbsVars, todo, since, next, stream, seen,
                   hdr, short, restoreVars>>

IsExcluded(f) == f \in Excluded

\* Walk reads the directories.
ListContent ==
    /\ Goto("list", "walk")
    /\ todo' = {f \in File : live[f].ver # Absent /\ ~IsExcluded(f)}
    /\ seen' = [f \in File |->
                  IF f \in todo' \/ IsExcluded(f) THEN Unseen ELSE Absent]
    /\ UNCHANGED <<siteVars, now, cbsVars, since, next, sdb, stream, hdr,
                   short, restoreVars>>

Modified(f) == since = NoCursor \/ live[f].mtime > since

\* addContent leaves a file out of a delta.
Skip(f) ==
    /\ Goto("walk", "walk")
    /\ f \in todo /\ live[f].ver # Absent /\ ~Modified(f)
    /\ todo' = todo \ {f}
    /\ seen' = [seen EXCEPT ![f] = IF live[f].old THEN Unseen ELSE live[f].ver]
    /\ UNCHANGED <<siteVars, now, cbsVars, since, next, sdb, stream, hdr,
                   short, restoreVars>>

\* WriteHeader refuses to follow a member that is short.
Header(f) ==
    /\ Goto("walk", "copy")
    /\ f \in todo /\ live[f].ver # Absent /\ Modified(f)
    /\ ~short
    /\ hdr' = [file |-> f, ver |-> live[f].ver]
    /\ todo' = todo \ {f}
    /\ UNCHANGED <<siteVars, now, cbsVars, since, next, sdb, stream, seen,
                   short, restoreVars>>

\* What is copied has the size of the header, or is shorter: io.Copy returns
\* nil.  A file that grew or went away since is an error (BackupFails).
Copy ==
    /\ Goto("copy", "walk")
    /\ LET f == hdr.file  v == live[f].ver IN
         /\ v # Absent
         /\ seen' = [seen EXCEPT ![f] = v]
         /\ \/ stream' = [stream EXCEPT ![f] = v] /\ short' = FALSE
            \/ v # hdr.ver /\ stream' = [stream EXCEPT ![f] = Torn]
               /\ short' = TRUE
    /\ hdr' = NoHdr
    /\ UNCHANGED <<siteVars, now, cbsVars, todo, since, next, sdb, restoreVars>>

Recorded ==
    LET delta == since # NoCursor
        base  == IF delta THEN backups[tip] ELSE Blank IN
      [members |-> stream, db |-> sdb, delta |-> delta,
       chain |-> Append(base.chain, count + 1), torn |-> short,
       image |-> Overlay(base.image, stream), seen |-> seen]

\* Mutation: the cursor is taken when the backup has been written.
CommitLateCursor ==
    /\ Goto("walk", "idle")
    /\ todo = {}
    /\ count' = count + 1
    /\ backups' = [backups EXCEPT ![count + 1] = Recorded]
    /\ next # NoCursor
    /\ tip' = count + 1 /\ cursor' = now
    /\ NoBackup
    /\ UNCHANGED <<siteVars, now, todo, restoreVars>>

\* Walk is done; the error of tar's Close is dropped.  CBS records the result.
Commit ==
    /\ Goto("walk", "idle")
    /\ todo = {}
    /\ count' = count + 1
    /\ backups' = [backups EXCEPT ![count + 1] = Recorded]
    /\ tip' = IF next # NoCursor THEN count + 1 ELSE tip
    /\ cursor' = IF next # NoCursor THEN next ELSE cursor
    /\ NoBackup
    /\ UNCHANGED <<siteVars, now, todo, restoreVars>>

\* The dump, the walk, a copy or the data plane fails, or the job is cancelled.
BackupFails ==
    /\ pc \in {"dump", "list", "walk", "copy"} /\ pc' = "idle"
    /\ todo' = {} /\ NoBackup
    /\ UNCHANGED <<siteVars, now, cbsVars, restoreVars>>

Backup == StartBackup \/ Dump \/ ListContent \/ Copy \/ Commit \/ BackupFails
          \/ \E f \in File : Skip(f) \/ Header(f)

-----------------------------------------------------------------------------
(* Restore.                                                                 *)

NoRestore ==
    /\ chain' = <<>> /\ pos' = 0 /\ loaded' = FALSE /\ cleared' = FALSE
    /\ flushed' = FALSE /\ touched' = {}

Element == backups[chain[pos]]
Target  == backups[chain[Len(chain)]]

\* Mutation: every element of a chain is taken for a base.
AlwaysBase == TRUE
IsBase     == pos = 1

Members(id) == {f \in File : backups[id].members[f] # NotIn}

\* The reader has come to the files, behind the dump of a backup that has one.
\* A full stream has a directory below files/.
HasDump    == Element.db # 0
AtFiles    == HasDump => loaded
HasContent == todo # {} \/ (HasDump /\ ~Element.delta)

\* doRestore: CBS sends a backup and its chain.
StartRestore(id) ==
    /\ Goto("idle", "read")
    /\ restores < MaxRestores
    /\ chain' = IF id = Foreign THEN <<Foreign>> ELSE backups[id].chain
    /\ pos' = 1
    /\ todo' \in {Members(chain'[1])} \cup (IF id = Foreign THEN {{}} ELSE {})
    /\ restores' = restores + 1
    /\ UNCHANGED <<siteVars, now, cbsVars, backupVars, loaded, cleared, flushed,
                   touched>>

\* The dump is the first member.  mysql drops and creates the database below
\* WordPress, which keeps what it has cached.
LoadDB ==
    /\ Goto("read", "read")
    /\ ~loaded /\ HasDump
    /\ db' = Element.db /\ loaded' = TRUE
    /\ touched' = touched \ {"db"}
    /\ UNCHANGED <<live, cache, changes, now, cbsVars, todo, backupVars, chain,
                   pos, cleared, flushed, restores>>

\* clearDir removes all there is, what no backup holds as well.
ClearOnce ==
    /\ Goto("read", "read")
    /\ AtFiles /\ HasContent /\ IsBase /\ ~cleared
    /\ cleared' = TRUE
    /\ live' = [f \in File |-> Gone] /\ touched' = touched \ File
    /\ UNCHANGED <<db, cache, changes, now, cbsVars, todo, backupVars, chain,
                   pos, loaded, flushed, restores>>

\* The member that is short is the last one, and reading it is an error.
Extract(f) ==
    /\ Goto("read", "read")
    /\ f \in todo
    /\ AtFiles /\ (IsBase => cleared)
    /\ ~(Element.torn /\ Element.members[f] = Torn)
    /\ todo' = todo \ {f}
    /\ live' = [live EXCEPT ![f] = [ver |-> Element.members[f],
                                    mtime |-> now, old |-> FALSE]]
    /\ touched' = touched \ {f}
    /\ UNCHANGED <<db, cache, changes, now, cbsVars, backupVars, chain, pos,
                   loaded, cleared, flushed, restores>>

\* End of the stream; apply refuses one without a dump.
EndElement ==
    /\ Goto("read", "flush")
    /\ loaded /\ todo = {}
    /\ IsBase /\ HasContent => cleared
    /\ UNCHANGED <<siteVars, now, cbsVars, todo, backupVars, restoreVars>>

NextElement ==
    IF pos < Len(chain)
      THEN /\ pc' = "read" /\ pos' = pos + 1
           /\ todo' = Members(chain[pos + 1])
           /\ loaded' = FALSE /\ cleared' = FALSE
      ELSE pc' = "restored" /\ UNCHANGED <<pos, todo, loaded, cleared>>

\* Mutation: only the base is followed by a flush.
FlushBase ==
    /\ pc = "flush"
    /\ IF IsBase THEN cache' = 0 /\ flushed' = TRUE
                 ELSE UNCHANGED <<cache, flushed>>
    /\ NextElement
    /\ UNCHANGED <<live, db, changes, now, cbsVars, backupVars, chain, touched,
                   restores>>

\* flushObjectCache, whose error is logged only; then the next element.
Flush ==
    /\ pc = "flush"
    /\ \/ cache' = 0 /\ flushed' = TRUE
       \/ cache' = cache /\ flushed' = FALSE
    /\ NextElement
    /\ UNCHANGED <<live, db, changes, now, cbsVars, backupVars, chain, touched,
                   restores>>

FinishRestore ==
    /\ Goto("restored", "idle") /\ NoRestore
    /\ UNCHANGED <<siteVars, now, cbsVars, todo, backupVars, restores>>

\* What a failure cuts short: mysql, which has dropped the database already,
\* clearDir, or the file being written.
LoadCut    == ~loaded /\ HasDump /\ db' = Torn /\ UNCHANGED live
ClearCut   ==
    /\ AtFiles /\ HasContent /\ IsBase /\ ~cleared
    /\ \E gone \in SUBSET File :
         live' = [f \in File |-> IF f \in gone THEN Gone ELSE live[f]]
    /\ UNCHANGED db
ExtractCut ==
    /\ AtFiles /\ (IsBase => cleared)
    /\ \E f \in todo :
         live' = [live EXCEPT ![f] =
                    [ver |-> Torn, mtime |-> now, old |-> FALSE]]
    /\ UNCHANGED db

\* The stream, mysql, clearDir or a write fails, or the job is cancelled: what
\* has been applied stays, the step under way in part.
RestoreFails ==
    /\ Goto("read", "idle") /\ NoRestore
    /\ todo' = {}
    /\ LoadCut \/ ClearCut \/ ExtractCut \/ UNCHANGED <<live, db>>
    /\ UNCHANGED <<cache, changes, now, cbsVars, backupVars, restores>>

Restore == \/ \E id \in 0..count : StartRestore(id)
           \/ \E f \in File : Extract(f)
           \/ LoadDB \/ ClearOnce \/ EndElement \/ Flush \/ FinishRestore
           \/ RestoreFails

Next == Site \/ Backup \/ Restore
Spec == Init /\ [][Next]_vars

-----------------------------------------------------------------------------
(* Properties.                                                              *)

Member == [File -> Held \cup {NotIn}]
Seen   == [File -> Held \cup {Absent, Unseen}]
Record == [members : Member, db : Held \cup {0}, delta : BOOLEAN,
           chain : Seq(0..MaxBackups), torn : BOOLEAN,
           image : [File -> Held \cup {Absent}], seen : Seen]
Clock  == 0..MaxClock

SiteTypes ==
    /\ live \in [File -> [ver : Held \cup {Absent}, mtime : Clock, old : BOOLEAN]]
    /\ db \in Held /\ cache \in Held \cup {0}
    /\ changes \in Version /\ now \in Clock

CbsTypes ==
    /\ count \in 0..MaxBackups /\ backups \in [Id \cup {Foreign} -> Record]
    /\ tip \in 0..count /\ cursor \in Clock

BackupTypes ==
    /\ since \in Clock /\ next \in Clock /\ sdb \in Held \cup {0}
    /\ stream \in Member /\ seen \in Seen
    /\ hdr \in [file : File \cup {NoFile}, ver : Held \cup {Absent}]
    /\ short \in BOOLEAN

RestoreTypes ==
    /\ chain \in Seq(0..MaxBackups) /\ pos \in Nat
    /\ loaded \in BOOLEAN /\ cleared \in BOOLEAN /\ flushed \in BOOLEAN
    /\ touched \subseteq File \cup {"db"} /\ restores \in Nat

\* Every variable has its type.
TypeOK ==
    /\ pc \in {"idle", "dump", "list", "walk", "copy", "read", "flush", "restored"}
    /\ todo \subseteq File
    /\ SiteTypes /\ CbsTypes /\ BackupTypes /\ RestoreTypes

\* The chain of a backup yields each file as the backup's walk met it, a file
\* left out of a delta included, whatever the site, earlier failures and
\* restores did in between; a full backup has no file that the walk did not
\* find.  (Exempt: a file put there with an old modification time, which a
\* delta does not see, the member cut short by a shrinking file, and what was
\* deleted between two incremental backups.)
ChainIsFaithful ==
    \A id \in 1..count, f \in Content :
      LET b == backups[id] IN
        /\ b.seen[f] \notin {Unseen, Absent} =>
             b.image[f] = b.seen[f] \/ (b.torn /\ b.image[f] = Torn)
        /\ b.seen[f] = Absent /\ ~b.delta => b.image[f] = Absent

\* The invariant the proof needs.  A file of the live site that was not modified
\* after the cursor is what the chain of the last incremental backup yields:
\* that is what allows the next delta to skip it.
Datable(f) == live[f].ver # Absent /\ ~live[f].old

TimesPast ==
    /\ cursor \in Nat /\ now \in Nat /\ cursor < now
    /\ next \in Nat /\ next <= now
    /\ pc \in {"list", "walk", "copy"} => next < now
    /\ since \in {NoCursor, cursor}

CursorCovers ==
    \A f \in Content : Datable(f) /\ cursor # NoCursor /\ live[f].mtime <= cursor
        => live[f].ver = backups[tip].image[f]

\* What the stream yields for f, laid over the chain it extends.
Yields(f) == IF stream[f] # NotIn THEN stream[f]
             ELSE IF since # NoCursor THEN backups[tip].image[f] ELSE Absent

ToVisit(f) == f \in todo \/ (pc = "copy" /\ f = hdr.file)

WalkInv ==
    pc \in {"walk", "copy"} => \A f \in Content :
      /\ ToVisit(f) \/ seen[f] = Absent =>
            stream[f] = NotIn /\ seen[f] \in {Absent, Unseen}
      /\ seen[f] \notin {Unseen, Absent} =>
            Yields(f) = seen[f] \/ (short /\ Yields(f) = Torn)
      /\ Datable(f) /\ live[f].mtime <= next /\ f \notin todo =>
            live[f].ver = IF ToVisit(f) THEN hdr.ver ELSE Yields(f)

SiteInv == TimesPast /\ CursorCovers /\ WalkInv /\ ChainIsFaithful

\* What the chain of a restore has yielded before its element k.
Before(c, k) == IF k = 1 THEN Blank.image ELSE backups[c[k - 1]].image

\* An element of a chain: the first one is full, every one has a dump and
\* continues the image of the one before it.
Linked(c, k) ==
    LET e == backups[c[k]] IN
      /\ e.delta <=> k > 1
      /\ e.db # 0
      /\ e.image = Overlay(Before(c, k), e.members)

\* The chain of a backup is made of backups that have been recorded, and ends
\* with the backup itself.
IsChain(c, id) ==
    /\ c \in Seq(1..count) /\ c # <<>> /\ c[Len(c)] = id
    /\ \A k \in 1..Len(c) : Linked(c, k)

LinkInv ==
    /\ cursor # NoCursor => tip # 0
    /\ db # 0 /\ (pc \in {"list", "walk", "copy"} => sdb # 0)
    /\ backups[Foreign] = Alien
    /\ \A id \in 1..count : IsChain(backups[id].chain, id)

\* A stream that ends short has the member that is torn.
TornInv ==
    /\ short => \E f \in File : stream[f] = Torn
    /\ \A id \in 1..count : backups[id].torn =>
         \E f \in File : backups[id].members[f] = Torn

\* A torn member remains to be read.
TornKept ==
    Element.torn => pc = "read" /\ \E f \in todo : Element.members[f] = Torn

\* A restore has put the site in the image of the elements it has applied, the
\* members it has still to read excepted.  A backup of another data type does
\* not get beyond its first element.
Applied ==
    /\ \E id \in 1..count : chain = backups[id].chain
    /\ loaded \/ pc # "read" => "db" \in touched \/ db = Element.db
    /\ TornKept
    /\ IF pc = "read" /\ IsBase /\ ~cleared
         THEN todo = Members(chain[pos])
         ELSE \A f \in File \ touched :
                live[f].ver = IF pc = "read" /\ f \in todo
                                THEN Before(chain, pos)[f]
                                ELSE Element.image[f]

AppliedInv ==
    IF Restoring
      THEN /\ pos \in 1..Len(chain)
           /\ IF chain = <<Foreign>> THEN pc = "read" /\ ~loaded ELSE Applied
           /\ pc = "restored" => pos = Len(chain)
      ELSE ~loaded /\ ~cleared

WholeInv == SiteInv /\ LinkInv /\ TornInv /\ AppliedInv

\* A restore that reports done has put the site in the state the target backup
\* stands for: every file as its chain has it, no file it does not have, and
\* its database (what the site changed meanwhile excepted); and what the walk
\* of the target met is back as it was met, a member cut short included.  It was
\* never given a stream without a dump.
RestoredIsImage ==
    pc = "restored" =>
      /\ chain[Len(chain)] \in 1..count
      /\ \A f \in File \ touched : live[f].ver = Target.image[f]
      /\ "db" \notin touched => db = Target.db
      /\ \A f \in Content \ touched :
           Target.seen[f] \notin {Unseen, Absent} => live[f].ver = Target.seen[f]

\* After a restore whose last flush succeeded WordPress serves nothing of the
\* database that was replaced.
NoStaleCache == pc = "restored" /\ flushed => cache \in {0, db}

\* main_test.go:48: "wp-content backs up + restores byte-identical".  Said of
\* every backup that is reported done.
DoneIsRestorable == \A id \in 1..count : ~backups[id].torn
=============================================================================
