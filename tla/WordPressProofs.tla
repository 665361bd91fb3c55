--------------------------- MODULE WordPressProofs ---------------------------
(***************************************************************************)
(* Proof that chains of incremental backups are faithful, for every set of *)
(* files, every number of changes, backups and restores, and every way     *)
(* the site, the walk, failures and restores interleave.                   *)
(***************************************************************************)
EXTENDS WordPress, TLAPS

\* What the invariant needs to know of the variables beside SiteInv.
Shape ==
    /\ DOMAIN live = File /\ DOMAIN stream = File /\ DOMAIN seen = File
    /\ DOMAIN backups = Id \cup {Foreign}
    /\ \A f \in File : live[f].mtime \in Nat /\ live[f].ver # NotIn
    /\ changes \in Nat /\ short \in BOOLEAN
    /\ count \in 0..MaxBackups /\ tip \in 0..count
    /\ pc \in {"dump", "list", "walk", "copy"} => count < MaxBackups
    /\ pc \notin {"walk", "copy"} => stream = Empty /\ ~short
    /\ pc = "copy" => hdr.file \in File \ todo /\ ~short
    /\ pc = "read" => todo \subseteq Members(chain[pos])

Inv == Shape /\ SiteInv

LEMMA InitInv == Init => Inv
<1> SUFFICES ASSUME Init PROVE Inv
  OBVIOUS
<1> USE DEF Init
<1>1. \A f \in File : live[f].mtime = 0 /\ live[f].ver \in {0, 1}
  BY DEF Gone, First, Absent
<1>2. Shape
  <2>1. DOMAIN live = File /\ DOMAIN stream = File /\ DOMAIN seen = File
    BY DEF Empty, Unread
  <2>2. DOMAIN backups = Id \cup {Foreign}
    OBVIOUS
  <2>3. count \in 0..MaxBackups /\ tip \in 0..count
    BY BoundsAssumption
  <2>4. \A f \in File : live[f].mtime \in Nat /\ live[f].ver # NotIn
    BY <1>1 DEF NotIn
  <2> QED BY <2>1, <2>2, <2>3, <2>4 DEF Shape
<1>3. TimesPast /\ CursorCovers /\ WalkInv /\ ChainIsFaithful
  BY DEF TimesPast, CursorCovers, WalkInv, ChainIsFaithful, NoCursor
<1> QED BY <1>2, <1>3 DEF Inv, SiteInv

(***************************************************************************)
(* Whatever changes a file leaves it absent, undatable, or modified now,   *)
(* which is after the cursor and after the cursor to be returned.          *)
(***************************************************************************)
Settled == \A f \in File : \/ live'[f] = live[f]
                           \/ live'[f].ver = Absent \/ live'[f].old
                           \/ live'[f].mtime = now

LEMMA CursorKept ==
  ASSUME Inv, Settled, UNCHANGED cbsVars
  PROVE  CursorCovers' /\ ChainIsFaithful'
<1>1. ChainIsFaithful'
  BY DEF Inv, SiteInv, ChainIsFaithful, cbsVars
<1>2. CursorCovers'
  <2> SUFFICES ASSUME NEW f \in Content, Datable(f)', cursor # NoCursor,
                      live'[f].mtime <= cursor
               PROVE  live'[f].ver = backups[tip].image[f]
    BY DEF CursorCovers, cbsVars
  <2>1. live'[f] = live[f]
    BY DEF Settled, Datable, File, Inv, SiteInv, TimesPast
  <2> QED BY <2>1 DEF Datable, Inv, SiteInv, CursorCovers
<1> QED BY <1>1, <1>2

LEMMA WalkKept ==
  ASSUME Inv, Settled, UNCHANGED <<pc, todo, backupVars, cbsVars>>
  PROVE  WalkInv'
<1> SUFFICES ASSUME pc \in {"walk", "copy"}, NEW f \in Content
             PROVE  (/\ ToVisit(f) \/ seen[f] = Absent =>
                          stream[f] = NotIn /\ seen[f] \in {Absent, Unseen}
                     /\ seen[f] \notin {Unseen, Absent} =>
                          Yields(f) = seen[f] \/ (short /\ Yields(f) = Torn)
                     /\ Datable(f) /\ live[f].mtime <= next /\ f \notin todo =>
                          live[f].ver = IF ToVisit(f) THEN hdr.ver
                                        ELSE Yields(f))'
  BY DEF WalkInv
<1>1. Yields(f)' = Yields(f) /\ ToVisit(f)' = ToVisit(f)
  BY DEF Yields, ToVisit, backupVars, cbsVars
<1>2. Datable(f)' /\ live'[f].mtime <= next => live'[f] = live[f] /\ Datable(f)
  BY DEF Settled, Datable, File, Inv, SiteInv, TimesPast
<1> QED BY <1>1, <1>2 DEF Inv, SiteInv, WalkInv, backupVars

LEMMA SiteStep ==
  ASSUME Inv, Site
  PROVE  Inv'
<1> USE DEF Inv, SiteInv
<1>1. CASE \E f \in File : Change(f) \/ Arrive(f) \/ Remove(f)
  <2> PICK f \in File : Change(f) \/ Arrive(f) \/ Remove(f)
    BY <1>1
  <2>1. PICK r : /\ live' = [live EXCEPT ![f] = r]
                 /\ r.mtime \in Nat /\ r.ver # NotIn
                 /\ r.ver = Absent \/ r.old \/ r.mtime = now
    <3>1. CASE Change(f)
      <4> DEFINE r == [ver |-> changes + 1, mtime |-> now, old |-> FALSE]
      <4>1. live' = [live EXCEPT ![f] = r]
        BY <3>1 DEF Change
      <4>2. r.mtime \in Nat /\ r.ver # NotIn
            /\ (r.ver = Absent \/ r.old \/ r.mtime = now)
        BY DEF Shape, TimesPast, NotIn
      <4> QED BY <4>1, <4>2
    <3>2. CASE Arrive(f)
      <4> DEFINE r == [ver |-> changes + 1, mtime |-> 0, old |-> TRUE]
      <4>1. live' = [live EXCEPT ![f] = r]
        BY <3>2 DEF Arrive
      <4>2. r.mtime \in Nat /\ r.ver # NotIn
            /\ (r.ver = Absent \/ r.old \/ r.mtime = now)
        BY DEF Shape, NotIn
      <4> QED BY <4>1, <4>2
    <3>3. CASE Remove(f)
      <4> DEFINE r == Gone
      <4>1. live' = [live EXCEPT ![f] = r]
        BY <3>3 DEF Remove
      <4>2. r.mtime \in Nat /\ r.ver # NotIn
            /\ (r.ver = Absent \/ r.old \/ r.mtime = now)
        BY DEF Gone, NotIn, Absent
      <4> QED BY <4>1, <4>2
    <3> QED BY <3>1, <3>2, <3>3
  <2>2. UNCHANGED <<now, cbsVars, pc, todo, backupVars, chain, pos>>
        /\ changes' \in Nat
    BY DEF Change, Arrive, Remove, Spend, Shape
  <2>3. Settled
    BY <2>1 DEF Settled, Shape
  <2>4. Shape'
    BY <2>1, <2>2 DEF Shape, cbsVars, backupVars, Members
  <2>5. TimesPast'
    BY <2>2 DEF TimesPast, cbsVars, backupVars
  <2> QED BY <2>2, <2>3, <2>4, <2>5, CursorKept, WalkKept
<1>2. CASE ChangeDB \/ Serve \/ Tick
  <2>1. live' = live /\ UNCHANGED <<cbsVars, pc, todo, backupVars, chain, pos>>
        /\ changes' \in Nat /\ now' \in Nat /\ now' >= now
    BY <1>2 DEF ChangeDB, Serve, Tick, Spend, siteVars, restoreVars, Shape,
                TimesPast
  <2>2. Settled
    BY <2>1 DEF Settled
  <2>3. Shape'
    BY <2>1 DEF Shape, cbsVars, backupVars, Members
  <2>4. TimesPast'
    BY <2>1 DEF TimesPast, cbsVars, backupVars
  <2> QED BY <2>1, <2>2, <2>3, <2>4, CursorKept, WalkKept
<1> QED BY <1>1, <1>2 DEF Site

(***************************************************************************)
(* Restores write files now, and touch nothing of CBS.                     *)
(***************************************************************************)
LEMMA RestoreStep ==
  ASSUME Inv, Restore
  PROVE  Inv'
<1> USE DEF Inv, SiteInv
<1>1. /\ UNCHANGED <<now, changes, cbsVars, backupVars>>
      /\ pc \notin {"dump", "list", "walk", "copy"}
      /\ pc' \notin {"dump", "list", "walk", "copy"}
  BY DEF Restore, StartRestore, Extract, LoadDB, ClearOnce, EndElement, Flush,
         NextElement, FinishRestore, RestoreFails, Goto, siteVars, restoreVars
<1>2. DOMAIN live' = File /\ Settled
      /\ \A f \in File : live'[f].mtime \in Nat /\ live'[f].ver # NotIn
  <2>1. CASE \E f \in File : Extract(f)
    <3> PICK f \in File : Extract(f)
      BY <2>1
    <3>1. f \in Members(chain[pos])
      BY DEF Extract, Goto, Shape
    <3>2. Element.members[f] # NotIn
      BY <3>1 DEF Members, Element
    <3> QED BY <3>2 DEF Extract, Shape, Settled, TimesPast
  <2>2. CASE ClearOnce
    BY <2>2 DEF ClearOnce, Gone, Settled, Absent, NotIn
  <2>3. CASE RestoreFails
    <3>1. CASE UNCHANGED live
      BY <3>1 DEF Shape, Settled
    <3>2. CASE ClearCut
      BY <3>2 DEF ClearCut, Gone, Shape, Settled, Absent, NotIn
    <3>3. CASE ExtractCut
      BY <3>3 DEF ExtractCut, Shape, Settled, TimesPast, Torn, NotIn
    <3> QED BY <2>3, <3>1, <3>2, <3>3 DEF RestoreFails, LoadCut
  <2>4. CASE live' = live
    BY <2>4 DEF Shape, Settled
  <2> QED BY <2>1, <2>2, <2>3, <2>4 DEF Restore, StartRestore, LoadDB,
             EndElement, Flush, FinishRestore, siteVars
<1>3. pc' = "read" => todo' \subseteq Members(chain[pos])'
  <2>1. CASE \E id \in 0..count : StartRestore(id)
    BY <2>1, <1>1 DEF StartRestore, Members, cbsVars
  <2>2. CASE Flush
    BY <2>2, <1>1 DEF Flush, NextElement, Members, cbsVars
  <2>3. CASE (\E f \in File : Extract(f)) \/ LoadDB \/ ClearOnce
    BY <2>3, <1>1 DEF Extract, LoadDB, ClearOnce, Goto, Members, cbsVars, Shape
  <2> QED BY <2>1, <2>2, <2>3 DEF Restore, EndElement, FinishRestore,
             RestoreFails, Goto
<1>4. Shape'
  BY <1>1, <1>2, <1>3 DEF Shape, cbsVars, backupVars
<1>5. TimesPast'
  BY <1>1 DEF TimesPast, cbsVars, backupVars
<1>6. WalkInv'
  BY <1>1 DEF WalkInv
<1> QED BY <1>1, <1>2, <1>4, <1>5, <1>6, CursorKept

(***************************************************************************)
(* A backup up to its walk: nothing has been written yet.                  *)
(***************************************************************************)
LEMMA BackupBegins ==
  ASSUME Inv, StartBackup \/ Dump \/ ListContent \/ BackupFails
  PROVE  Inv'
<1> USE DEF Inv, SiteInv
<1>1. live' = live /\ UNCHANGED <<now, cbsVars, changes>>
  BY DEF StartBackup, Dump, ListContent, BackupFails, siteVars
<1>2. Settled
  BY <1>1 DEF Settled
<1>3. Shape' /\ TimesPast'
  <2>1. CASE StartBackup
    BY <2>1, <1>1 DEF StartBackup, Goto, Shape, TimesPast, cbsVars, NoCursor
  <2>2. CASE Dump
    BY <2>2, <1>1 DEF Dump, DumpTakes, Goto, Shape, TimesPast, cbsVars
  <2>3. CASE ListContent
    <3>1. /\ pc = "list" /\ pc' = "walk" /\ DOMAIN seen' = File
          /\ UNCHANGED <<since, next, stream, short>>
      BY <2>3 DEF ListContent, Goto
    <3>2. Shape'
      BY <1>1, <3>1 DEF Shape, cbsVars
    <3>3. TimesPast'
      BY <1>1, <3>1 DEF TimesPast, cbsVars
    <3> QED BY <3>2, <3>3
  <2>4. CASE BackupFails
    <3>1. /\ pc' = "idle" /\ since' = NoCursor /\ next' = NoCursor
          /\ stream' = Empty /\ seen' = Unread /\ short' = FALSE
      BY <2>4 DEF BackupFails, NoBackup
    <3>2. DOMAIN stream' = File /\ DOMAIN seen' = File
      BY <3>1 DEF Empty, Unread
    <3>3. Shape'
      BY <1>1, <3>1, <3>2 DEF Shape, cbsVars
    <3>4. TimesPast'
      BY <1>1, <3>1 DEF TimesPast, cbsVars, NoCursor
    <3> QED BY <3>3, <3>4
  <2> QED BY <2>1, <2>2, <2>3, <2>4
<1>4. WalkInv'
  <2>1. CASE ListContent
    <3> SUFFICES ASSUME NEW f \in Content
                 PROVE  /\ (seen[f] \in {Absent, Unseen} /\ stream[f] = NotIn)'
                        /\ f \notin todo' => ~Datable(f)'
      BY <2>1 DEF WalkInv, ListContent, Goto, ToVisit
    <3>1. f \in File /\ ~IsExcluded(f)
      BY FilesAssumption DEF File, IsExcluded
    <3>2. stream'[f] = NotIn
      BY <2>1, <3>1 DEF ListContent, Goto, Shape, Empty
    <3>3. seen'[f] \in {Absent, Unseen}
      BY <2>1, <3>1 DEF ListContent
    <3>4. f \notin todo' => ~Datable(f)'
      BY <2>1, <3>1, <1>1 DEF ListContent, Datable
    <3> QED BY <3>2, <3>3, <3>4
  <2>2. CASE ~ListContent
    BY <2>2 DEF WalkInv, StartBackup, Dump, BackupFails, Goto
  <2> QED BY <2>1, <2>2
<1> QED BY <1>1, <1>2, <1>3, <1>4, CursorKept

(***************************************************************************)
(* The walk comes to a file.  One that is skipped was not modified after   *)
(* the cursor, so the chain has it as it is.                               *)
(***************************************************************************)
LEMMA VisitStep ==
  ASSUME Inv, NEW f \in File, Skip(f) \/ Header(f)
  PROVE  Inv'
<1> USE DEF Inv, SiteInv
<1>1. live' = live
      /\ UNCHANGED <<now, changes, cbsVars, since, next, stream, short>>
  BY DEF Skip, Header, siteVars
<1>2. Settled
  BY <1>1 DEF Settled
<1>3. Shape' /\ TimesPast'
  <2>1. CASE Skip(f)
    BY <2>1, <1>1 DEF Skip, Goto, Shape, TimesPast, cbsVars
  <2>2. CASE Header(f)
    <3>1. hdr'.file = f /\ todo' = todo \ {f} /\ seen' = seen /\ ~short
          /\ pc = "walk" /\ pc' = "copy"
      BY <2>2 DEF Header, Goto
    <3>2. Shape'
      BY <3>1, <1>1 DEF Shape, cbsVars
    <3>3. TimesPast'
      BY <3>1, <1>1 DEF TimesPast, cbsVars
    <3> QED BY <3>2, <3>3
  <2> QED BY <2>1, <2>2
<1>4. ASSUME NEW g \in Content
      PROVE  /\ Yields(g)' = Yields(g)
             /\ Datable(g)' = Datable(g)
             /\ g # f => ToVisit(g)' = ToVisit(g) /\ seen'[g] = seen[g]
                         /\ (g \in todo' <=> g \in todo)
  BY <1>1 DEF Yields, Datable, cbsVars, Skip, Header, Goto, ToVisit, Shape, File
<1>5. WalkInv'
  <2> SUFFICES ASSUME NEW g \in Content
               PROVE  (/\ ToVisit(g) \/ seen[g] = Absent =>
                            stream[g] = NotIn /\ seen[g] \in {Absent, Unseen}
                       /\ seen[g] \notin {Unseen, Absent} =>
                            Yields(g) = seen[g] \/ (short /\ Yields(g) = Torn)
                       /\ Datable(g) /\ live[g].mtime <= next /\ g \notin todo =>
                            live[g].ver = IF ToVisit(g) THEN hdr.ver
                                          ELSE Yields(g))'
    BY DEF WalkInv
  <2>0. pc = "walk"
    BY DEF Skip, Header, Goto
  <2>1. CASE g # f
    BY <2>0, <2>1, <1>1, <1>4 DEF WalkInv, ToVisit, Skip, Header, Goto
  <2>2. CASE g = f /\ Skip(f)
    <3>1. f \in todo /\ live[f].ver # Absent /\ since # NoCursor
          /\ live[f].mtime <= since /\ since = cursor
      BY <2>2 DEF Skip, Modified, Shape, TimesPast, NoCursor
    <3>2. stream[f] = NotIn
      BY <3>1, <2>0, <2>2 DEF WalkInv, ToVisit
    <3>3. Yields(f) = backups[tip].image[f]
      BY <3>1, <3>2 DEF Yields
    <3>4. ~live[f].old => live[f].ver = Yields(f)
      BY <3>1, <3>3, <2>2 DEF CursorCovers, Datable
    <3>5. seen'[f] = (IF live[f].old THEN Unseen ELSE live[f].ver)
      BY <2>2 DEF Skip, Shape
    <3>6. ~ToVisit(f)'
      BY <2>2 DEF Skip, Goto, ToVisit
    <3>7. seen'[f] # Absent
      BY <3>1, <3>5 DEF Unseen, Absent
    <3>8. Datable(f) => ~live[f].old
      BY DEF Datable
    <3> QED BY <2>2, <3>4, <3>5, <3>6, <3>7, <3>8, <1>1, <1>4
  <2>3. CASE g = f /\ Header(f)
    <3>1. f \in todo /\ seen' = seen /\ ToVisit(f)' /\ hdr'.ver = live[f].ver
      BY <2>3 DEF Header, Goto, ToVisit
    <3>2. stream[f] = NotIn /\ seen[f] \in {Absent, Unseen}
      BY <3>1, <2>0, <2>3 DEF WalkInv, ToVisit
    <3> QED BY <2>3, <3>1, <3>2, <1>1
  <2> QED BY <2>1, <2>2, <2>3
<1> QED BY <1>1, <1>2, <1>3, <1>5, CursorKept

(***************************************************************************)
(* A copy writes what the file is now, or is cut short by a file that has  *)
(* changed since its header, so after the cursor to be returned.           *)
(***************************************************************************)
LEMMA CopyStep ==
  ASSUME Inv, Copy
  PROVE  Inv'
<1> USE DEF Inv, SiteInv
<1> PICK f : f = hdr.file
  OBVIOUS
<1>1. live' = live /\ UNCHANGED <<now, changes, cbsVars, since, next, todo>>
      /\ pc = "copy" /\ pc' = "walk" /\ f \in File /\ f \notin todo /\ ~short
      /\ short' \in BOOLEAN
  BY DEF Copy, Goto, Shape, siteVars
<1>2. Settled
  BY <1>1 DEF Settled
<1>3. Shape' /\ TimesPast'
  <2>1. DOMAIN stream' = File /\ DOMAIN seen' = File
    BY DEF Copy, Shape
  <2> QED BY <1>1, <2>1 DEF Shape, TimesPast, cbsVars
<1>4. seen'[f] = live[f].ver /\ live[f].ver \notin {Absent, NotIn}
      /\ \/ stream'[f] = live[f].ver
         \/ live[f].ver # hdr.ver /\ stream'[f] = Torn /\ short'
  BY <1>1 DEF Copy, Shape
<1>5. \A g \in File : g # f => seen'[g] = seen[g] /\ stream'[g] = stream[g]
  BY DEF Copy, Shape
<1>6. WalkInv'
  <2> SUFFICES ASSUME NEW g \in Content
               PROVE  (/\ ToVisit(g) \/ seen[g] = Absent =>
                            stream[g] = NotIn /\ seen[g] \in {Absent, Unseen}
                       /\ seen[g] \notin {Unseen, Absent} =>
                            Yields(g) = seen[g] \/ (short /\ Yields(g) = Torn)
                       /\ Datable(g) /\ live[g].mtime <= next /\ g \notin todo =>
                            live[g].ver = IF ToVisit(g) THEN hdr.ver
                                          ELSE Yields(g))'
    BY DEF WalkInv
  <2>1. ToVisit(g)' = (g \in todo) /\ Datable(g)' = Datable(g)
    BY <1>1 DEF ToVisit, Datable
  <2>2. CASE g # f
    <3>1. Yields(g)' = Yields(g) /\ ToVisit(g)' = ToVisit(g)
      BY <1>1, <1>5, <2>1, <2>2 DEF Yields, ToVisit, cbsVars, File
    <3> QED BY <1>1, <1>5, <2>1, <2>2, <3>1 DEF WalkInv, File
  <2>3. CASE g = f
    <3>1. Yields(f)' = stream'[f]
      BY <1>4 DEF Yields, Torn, NotIn
    <3>2. Datable(f) /\ live[f].mtime <= next => live[f].ver = hdr.ver
      BY <1>1, <2>3 DEF WalkInv, ToVisit
    <3> QED BY <1>1, <1>4, <2>1, <2>3, <3>1, <3>2
  <2> QED BY <2>2, <2>3
<1> QED BY <1>1, <1>2, <1>3, <1>6, CursorKept

(***************************************************************************)
(* The backup is recorded: its chain yields what the stream laid over the  *)
(* chain before it does, and covers its cursor.                            *)
(***************************************************************************)
LEMMA CommitStep ==
  ASSUME Inv, Commit
  PROVE  Inv'
<1> USE DEF Inv, SiteInv
<1> DEFINE id == count + 1
<1>1. /\ live' = live /\ UNCHANGED <<now, changes>>
      /\ pc = "walk" /\ pc' = "idle" /\ todo = {} /\ todo' = {}
      /\ count' = id /\ backups' = [backups EXCEPT ![id] = Recorded]
      /\ tip' = IF next # NoCursor THEN id ELSE tip
      /\ cursor' = IF next # NoCursor THEN next ELSE cursor
      /\ since' = NoCursor /\ next' = NoCursor
      /\ stream' = Empty /\ seen' = Unread /\ short' = FALSE
  BY DEF Commit, Goto, NoBackup, siteVars
<1>2. id \in Id /\ id \in 1..MaxBackups /\ count \in Nat /\ tip < id
  BY <1>1, BoundsAssumption DEF Shape, Id
<1>3. backups'[id] = Recorded
      /\ \A b \in Id \cup {Foreign} : b # id => backups'[b] = backups[b]
  BY <1>1, <1>2 DEF Shape
<1>4. \A f \in Content : Recorded.image[f] = Yields(f)
  BY DEF Recorded, Overlay, Yields, File, Blank, Absent
<1>5. Recorded.seen = seen /\ Recorded.torn = short
      /\ (~Recorded.delta <=> since = NoCursor)
  BY DEF Recorded
<1>6. Shape'
  <2>1. DOMAIN stream' = File /\ DOMAIN seen' = File
    BY <1>1 DEF Empty, Unread
  <2>2. DOMAIN backups' = Id \cup {Foreign}
    BY <1>1 DEF Shape
  <2>3. count' \in 0..MaxBackups /\ tip' \in 0..count'
    BY <1>1, <1>2 DEF Shape
  <2> QED BY <1>1, <2>1, <2>2, <2>3 DEF Shape
<1>7. TimesPast'
  BY <1>1 DEF TimesPast, NoCursor
<1>8. ChainIsFaithful'
  <2> SUFFICES ASSUME NEW b \in 1..count', NEW f \in Content
               PROVE  LET r == backups'[b] IN
                        /\ r.seen[f] \notin {Unseen, Absent} =>
                             r.image[f] = r.seen[f] \/ (r.torn /\ r.image[f] = Torn)
                        /\ r.seen[f] = Absent /\ ~r.delta => r.image[f] = Absent
    BY DEF ChainIsFaithful
  <2>1. CASE b = id
    <3>1. seen[f] \notin {Unseen, Absent} =>
            Yields(f) = seen[f] \/ (short /\ Yields(f) = Torn)
      BY <1>1 DEF WalkInv
    <3>2. seen[f] = Absent /\ since = NoCursor => Yields(f) = Absent
      BY <1>1 DEF WalkInv, Yields
    <3> QED BY <1>3, <1>4, <1>5, <2>1, <3>1, <3>2
  <2>2. CASE b # id
    <3>1. b \in 1..count /\ backups'[b] = backups[b]
      BY <1>1, <1>2, <1>3, <2>2, BoundsAssumption DEF Id, Shape
    <3> QED BY <3>1 DEF ChainIsFaithful
  <2> QED BY <2>1, <2>2
<1>9. CursorCovers'
  <2> SUFFICES ASSUME NEW f \in Content, Datable(f), cursor' # NoCursor,
                      live[f].mtime <= cursor'
               PROVE  live[f].ver = backups'[tip'].image[f]
    BY <1>1 DEF CursorCovers, Datable
  <2>1. CASE next # NoCursor
    <3>1. live[f].ver = Yields(f)
      BY <1>1, <2>1 DEF WalkInv, ToVisit
    <3> QED BY <1>1, <1>3, <1>4, <2>1, <3>1
  <2>2. CASE next = NoCursor
    <3>1. tip \in Id \cup {Foreign} /\ tip # id
      BY <1>2, BoundsAssumption DEF Shape, Id, Foreign
    <3>2. backups'[tip] = backups[tip]
      BY <1>3, <3>1
    <3> QED BY <1>1, <2>2, <3>2 DEF CursorCovers
  <2> QED BY <2>1, <2>2
<1>10. WalkInv'
  BY <1>1 DEF WalkInv
<1> QED BY <1>6, <1>7, <1>8, <1>9, <1>10

LEMMA NextInv == Inv /\ [Next]_vars => Inv'
<1> SUFFICES ASSUME Inv, [Next]_vars PROVE Inv'
  OBVIOUS
<1>1. CASE UNCHANGED vars
  <2>1. Settled /\ UNCHANGED cbsVars
    BY <1>1 DEF Settled, vars, siteVars
  <2>2. UNCHANGED <<pc, todo, backupVars, cbsVars>>
    BY <1>1 DEF vars
  <2>3. Shape'
    BY <1>1 DEF Inv, Shape, vars, siteVars, cbsVars, backupVars, restoreVars,
                Members
  <2>4. TimesPast'
    BY <1>1 DEF Inv, SiteInv, TimesPast, vars, cbsVars, backupVars
  <2> QED BY <2>1, <2>2, <2>3, <2>4, CursorKept, WalkKept DEF Inv, SiteInv
<1>2. CASE Next
  BY <1>2, SiteStep, RestoreStep, BackupBegins, VisitStep, CopyStep,
     CommitStep DEF Next, Backup
<1> QED BY <1>1, <1>2

(***************************************************************************)
(* main.go:117-246, 268-280; sdk.go:646-679: whatever the site does during *)
(* and between the backups, however many of them or of the restores fail,  *)
(* the chain of every recorded backup yields each file as its walk met it. *)
(***************************************************************************)
THEOREM ChainsAreFaithful == Spec => []ChainIsFaithful
<1>1. Inv => ChainIsFaithful
  BY DEF Inv, SiteInv
<1> QED BY <1>1, InitInv, NextInv, PTL DEF Spec

(***************************************************************************)
(* main.go:297-302: flushed after the last dump was loaded, the object     *)
(* cache has nothing, or what was read from the restored database.         *)
(***************************************************************************)
THEOREM CacheIsFresh == Spec => []NoStaleCache
<1> USE DEF NoStaleCache
<1>1. Init => NoStaleCache
  BY DEF Init
<1>2. NoStaleCache /\ [Next]_vars => NoStaleCache'
  <2> SUFFICES ASSUME NoStaleCache, [Next]_vars, pc' = "restored", flushed'
               PROVE  cache' \in {0, db'}
    OBVIOUS
  <2>1. CASE Site
    BY <2>1 DEF Site, Change, Arrive, Remove, ChangeDB, Serve, Tick, siteVars,
                restoreVars
  <2>2. CASE Backup
    BY <2>2 DEF Backup, StartBackup, Dump, ListContent, Copy, Commit,
                BackupFails, Skip, Header, Goto
  <2>3. CASE Restore
    BY <2>3 DEF Restore, StartRestore, Extract, LoadDB, ClearOnce, EndElement,
                Flush, NextElement, FinishRestore, RestoreFails, Goto
  <2>4. CASE UNCHANGED vars
    BY <2>4 DEF vars, siteVars, restoreVars
  <2> QED BY <2>1, <2>2, <2>3, <2>4 DEF Next
<1> QED BY <1>1, <1>2, PTL DEF Spec
=============================================================================
