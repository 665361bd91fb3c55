-------------------------- MODULE RestoreImageProofs --------------------------
(***************************************************************************)
(* Proof that a restore reported done has put the site in the state its    *)
(* target backup stands for, for every length of the chain and whatever    *)
(* the site did meanwhile; and the types of WordPress.                     *)
(***************************************************************************)
EXTENDS WordPressProofs

Full == Inv /\ TypeOK /\ LinkInv /\ TornInv /\ AppliedInv

LEMMA ElementsInRange ==
  ASSUME NEW S, NEW c \in Seq(S), NEW k \in 1..Len(c)
  PROVE  c[k] \in S /\ (k # 1 => c[k - 1] \in S)
<1>1. Len(c) \in Nat /\ \A i \in 1..Len(c) : c[i] \in S
  OBVIOUS
<1>2. k # 1 => k - 1 \in 1..Len(c)
  BY <1>1
<1> QED BY <1>1, <1>2

LEMMA AlienRecord ==
  Alien \in Record /\ Blank \in Record /\ Alien.db = 0 /\ Blank.chain = <<>>
<1>1. Empty \in Member /\ Unread \in Seen
  BY DEF Empty, Member, Unread, Seen
<1>2. [f \in File |-> Absent] \in [File -> Held \cup {Absent}]
  OBVIOUS
<1>3. <<>> \in Seq(0..MaxBackups)
  OBVIOUS
<1>4. Blank \in Record
  BY <1>1, <1>2, <1>3 DEF Blank, Record
<1>5. [f \in File |-> IF f \in Content THEN 1 ELSE NotIn] \in Member
  BY BoundsAssumption DEF Member, Held, Version
<1>6. Alien \in Record
  BY <1>4, <1>5 DEF Alien, Record
<1>7. Alien.db = 0 /\ Blank.chain = <<>>
  BY DEF Alien, Blank
<1> QED BY <1>4, <1>6, <1>7

LEMMA InitFull == Init => Full
<1> SUFFICES ASSUME Init PROVE Full
  OBVIOUS
<1> USE DEF Init
<1>1. live \in [File -> [ver : Held \cup {Absent}, mtime : Clock, old : BOOLEAN]]
  <2>1. 1 \in Version /\ 0 \in Clock
    BY BoundsAssumption DEF Version, Clock
  <2>2. {Gone, First} \subseteq
          [ver : Held \cup {Absent}, mtime : Clock, old : BOOLEAN]
    BY <2>1 DEF Gone, First, Held
  <2> QED BY <2>2
<1>2. backups \in [Id \cup {Foreign} -> Record]
  BY AlienRecord
<1>3. stream \in Member /\ seen \in Seen
  BY DEF Empty, Member, Unread, Seen
<1>4. 1 \in Version /\ 1 \in Held /\ 0 \in Clock /\ 1 \in Clock
  BY BoundsAssumption DEF Version, Held, Clock
<1>5. hdr \in [file : File \cup {NoFile}, ver : Held \cup {Absent}]
  BY DEF NoHdr
<1>6. chain \in Seq(0..MaxBackups) /\ count \in 0..MaxBackups /\ tip \in 0..count
  BY BoundsAssumption
<1>7. TypeOK
  BY <1>1, <1>2, <1>3, <1>4, <1>5, <1>6 DEF TypeOK, SiteTypes, CbsTypes, BackupTypes, RestoreTypes, NoCursor
<1>8. LinkInv
  BY DEF LinkInv, NoCursor, Foreign
<1>9. AppliedInv
  BY DEF AppliedInv, Restoring
<1>10. TornInv
  BY DEF TornInv
<1> QED BY <1>7, <1>8, <1>9, <1>10, InitInv DEF Full

(***************************************************************************)
(* The chains CBS has recorded change only when a backup is committed.     *)
(***************************************************************************)
LEMMA LinkKept ==
  ASSUME LinkInv, UNCHANGED cbsVars, db' # 0,
         pc' \in {"list", "walk", "copy"} => sdb' # 0
  PROVE  LinkInv'
  BY DEF LinkInv, IsChain, Linked, cbsVars, Before

LEMMA LinkStep ==
  ASSUME Full, Next, ~Commit
  PROVE  LinkInv'
<1> USE DEF Full
<1>1. CASE Site
  <2>1. UNCHANGED <<cbsVars, pc, sdb>> /\ db' # 0
    BY <1>1 DEF Site, Change, Arrive, Remove, ChangeDB, Serve, Tick, siteVars,
                backupVars, Spend, LinkInv, Inv, Shape
  <2> QED BY <2>1, LinkKept DEF LinkInv
<1>2. CASE Backup
  <2>1. UNCHANGED <<cbsVars, db>>
    BY <1>2 DEF Backup, StartBackup, Dump, ListContent, Copy, BackupFails, Skip,
                Header, siteVars
  <2>2. pc' \in {"list", "walk", "copy"} => sdb' # 0
    BY <1>2 DEF Backup, StartBackup, Dump, ListContent, Copy, BackupFails, Skip,
                Header, Goto, LinkInv
  <2> QED BY <2>1, <2>2, LinkKept DEF LinkInv
<1>3. CASE Restore
  <2>1. UNCHANGED cbsVars /\ pc' \notin {"list", "walk", "copy"}
    BY <1>3 DEF Restore, StartRestore, Extract, LoadDB, ClearOnce, EndElement,
         Flush, NextElement, FinishRestore, RestoreFails, Goto
  <2>2. db' # 0
    BY <1>3 DEF Restore, StartRestore, Extract, LoadDB, ClearOnce, EndElement,
         Flush, FinishRestore, RestoreFails, LoadCut, ClearCut, ExtractCut,
         Torn, siteVars, HasDump, LinkInv
  <2> QED BY <2>1, <2>2, LinkKept
<1> QED BY <1>1, <1>2, <1>3 DEF Next

LEMMA LinkCommit ==
  ASSUME Full, Commit
  PROVE  LinkInv'
<1> USE DEF Full
<1> PICK id : id = count + 1
  OBVIOUS
<1> PICK r : r = Recorded
  OBVIOUS
<1> PICK base : base = IF since # NoCursor THEN backups[tip] ELSE Blank
  OBVIOUS
<1>1. /\ pc = "walk" /\ pc' = "idle" /\ db' = db
      /\ count' = id /\ backups' = [backups EXCEPT ![id] = r]
      /\ tip' = IF next # NoCursor THEN id ELSE tip
      /\ cursor' = IF next # NoCursor THEN next ELSE cursor
  BY DEF Commit, Goto, siteVars
<1>2. id \in Id /\ id # Foreign /\ count \in Nat /\ id \in 1..id
      /\ 1..count \subseteq 1..id /\ id \notin 1..count
  BY <1>1, BoundsAssumption DEF Inv, Shape, Id, Foreign
<1>3. backups'[id] = r
      /\ \A b \in Id \cup {Foreign} : b # id => backups'[b] = backups[b]
  BY <1>1, <1>2 DEF Inv, Shape
<1>4. \A b \in 1..count : backups'[b] = backups[b]
  BY <1>2, <1>3, BoundsAssumption DEF Inv, Shape, Id
<1>5. /\ r.chain = Append(base.chain, id)
      /\ r.image = Overlay(base.image, r.members)
      /\ r.db = sdb /\ (r.delta <=> since # NoCursor)
  BY DEF Recorded
<1>6. /\ base.chain \in Seq(1..count)
      /\ since # NoCursor => /\ tip \in 1..count /\ base = backups[tip]
                             /\ IsChain(base.chain, tip)
      /\ since = NoCursor => base.chain = <<>> /\ base = Blank
  <2>1. CASE since # NoCursor
    <3>1. tip \in 1..count
      BY <2>1 DEF Inv, Shape, SiteInv, TimesPast, LinkInv
    <3> QED BY <2>1, <3>1 DEF LinkInv, IsChain
  <2>2. CASE since = NoCursor
    <3>1. <<>> \in Seq(1..count)
      OBVIOUS
    <3> QED BY <2>2, <3>1, AlienRecord
  <2> QED BY <2>1, <2>2
<1>7. ASSUME NEW c \in Seq(1..count), NEW k \in 1..Len(c), Linked(c, k)
      PROVE  Linked(c, k)'
  <2>1. c[k] \in 1..count /\ (k # 1 => c[k - 1] \in 1..count)
    BY ElementsInRange
  <2>2. backups'[c[k]] = backups[c[k]] /\ Before(c, k)' = Before(c, k)
    BY <1>4, <2>1 DEF Before
  <2> QED BY <1>7, <2>2 DEF Linked
<1>8. ASSUME NEW b \in 1..count
      PROVE  IsChain(backups[b].chain, b)'
  <2> PICK c : c = backups[b].chain
    OBVIOUS
  <2>1. IsChain(c, b) /\ backups'[b].chain = c
    BY <1>4 DEF LinkInv
  <2>2. c \in Seq(1..id)
    BY <1>2, <2>1 DEF IsChain
  <2> QED BY <1>1, <1>7, <2>1, <2>2 DEF IsChain
<1>9. IsChain(backups[id].chain, id)'
  <2> PICK c : c = r.chain
    OBVIOUS
  <2>1. /\ c \in Seq(1..id) /\ Len(c) = Len(base.chain) + 1 /\ c[Len(c)] = id
        /\ \A k \in 1..Len(base.chain) : c[k] = base.chain[k]
        /\ Len(base.chain) \in Nat
    <3>1. base.chain \in Seq(1..id)
      BY <1>2, <1>6
    <3> QED BY <1>2, <1>5, <3>1
  <2>2. ASSUME NEW k \in 1..Len(base.chain)
        PROVE  Linked(c, k)'
    <3>1. since # NoCursor /\ IsChain(base.chain, tip)
      BY <1>6
    <3>2. Linked(base.chain, k)'
      BY <1>6, <1>7, <3>1 DEF IsChain
    <3>3. c[k] = base.chain[k] /\ (k # 1 => c[k - 1] = base.chain[k - 1])
      BY <2>1
    <3> QED BY <3>2, <3>3 DEF Linked, Before
  <2>3. Linked(c, Len(c))'
    <3>1. backups'[c[Len(c)]] = r /\ r.db # 0
      BY <1>1, <1>3, <1>5, <2>1 DEF LinkInv
    <3>2. since # NoCursor <=> Len(c) > 1
      BY <1>6, <2>1 DEF IsChain
    <3>3. Before(c, Len(c))' = base.image
      <4>1. CASE since = NoCursor
        BY <1>6, <2>1, <4>1 DEF Before
      <4>2. CASE since # NoCursor
        <5>1. c[Len(c) - 1] = tip /\ Len(c) # 1
          BY <1>6, <2>1, <3>2, <4>2 DEF IsChain
        <5> QED BY <1>4, <1>6, <4>2, <5>1 DEF Before
      <4> QED BY <4>1, <4>2
    <3> QED BY <1>5, <3>1, <3>2, <3>3 DEF Linked
  <2>4. \A k \in 1..Len(c) : Linked(c, k)'
    BY <2>1, <2>2, <2>3
  <2>5. c # <<>> /\ backups'[id].chain = c
    BY <1>3, <2>1
  <2> QED BY <1>1, <2>1, <2>4, <2>5 DEF IsChain
<1>10. backups'[Foreign] = Alien /\ (cursor' # NoCursor => tip' # 0)
  BY <1>1, <1>2, <1>3 DEF LinkInv, Foreign
<1>11. \A b \in 1..count' : b \in 1..count \/ b = id
  BY <1>1, <1>2
<1> QED BY <1>1, <1>8, <1>9, <1>10, <1>11 DEF LinkInv

(***************************************************************************)
(* The member that is short is the last one the walk has written.          *)
(***************************************************************************)
LEMMA TornStep ==
  ASSUME Full, [Next]_vars
  PROVE  TornInv'
<1> USE DEF Full
<1>1. CASE Copy
  <2>1. UNCHANGED cbsVars /\ hdr.file \in File
    BY <1>1 DEF Copy, Goto, Inv, Shape
  <2>2. short' => stream'[hdr.file] = Torn
    BY <1>1, <2>1 DEF Copy, TypeOK, BackupTypes, Member
  <2> QED BY <2>1, <2>2 DEF TornInv, cbsVars
<1>2. CASE Commit
  <2>1. count + 1 \in Id /\ count \in Nat /\ 1..MaxBackups = Id
    BY <1>2, BoundsAssumption DEF Commit, Goto, Inv, Shape, Id
  <2>2. /\ count' = count + 1 /\ ~short'
        /\ backups' = [backups EXCEPT ![count + 1] = Recorded]
    BY <1>2 DEF Commit, NoBackup
  <2>3. Recorded.torn = short /\ Recorded.members = stream
    BY DEF Recorded
  <2>4. \A b \in 1..count' : b = count + 1 \/ b \in 1..count
    BY <2>1, <2>2
  <2>5. \A b \in 1..count' :
          backups'[b] = IF b = count + 1 THEN Recorded ELSE backups[b]
    BY <2>1, <2>2, <2>4, BoundsAssumption DEF Inv, Shape
  <2> QED BY <2>2, <2>3, <2>4, <2>5 DEF TornInv
<1>3. CASE BackupFails
  BY <1>3 DEF BackupFails, NoBackup, TornInv, cbsVars
<1>4. CASE ~Copy /\ ~Commit /\ ~BackupFails
  <2>1. UNCHANGED <<cbsVars, stream, short>>
    BY <1>4 DEF Next, Site, Change, Arrive, Remove, ChangeDB, Serve, Tick,
         Backup, StartBackup, Dump, ListContent, Skip, Header, Restore,
         StartRestore, Extract, LoadDB, ClearOnce, EndElement, Flush,
         FinishRestore, RestoreFails, backupVars, vars
  <2> QED BY <2>1 DEF TornInv, cbsVars
<1> QED BY <1>1, <1>2, <1>3, <1>4

(***************************************************************************)
(* Types, action by action.  What a restore extracts is a member of an     *)
(* element of its chain, which is a recorded backup or the foreign one.    *)
(***************************************************************************)
Entry == [ver : Held \cup {Absent}, mtime : Clock, old : BOOLEAN]

LEMMA SiteTypesStep ==
  ASSUME Full, Site
  PROVE  TypeOK'
<1> USE DEF Full, TypeOK
<1>1. CASE \E f \in File : Change(f) \/ Arrive(f) \/ Remove(f)
  <2> PICK f \in File : Change(f) \/ Arrive(f) \/ Remove(f)
    BY <1>1
  <2>1. changes + 1 \in Version /\ changes' = changes + 1
    BY BoundsAssumption
    DEF Change, Arrive, Remove, Spend, SiteTypes, Version
  <2>2. {[ver |-> changes + 1, mtime |-> now, old |-> FALSE],
         [ver |-> changes + 1, mtime |-> 0, old |-> TRUE], Gone} \subseteq Entry
    BY <2>1, BoundsAssumption DEF Entry, SiteTypes, Held, Clock, Gone
  <2>3. live' \in [File -> Entry]
    BY <2>2 DEF Change, Arrive, Remove, SiteTypes, Entry
  <2>4. UNCHANGED <<db, cache, now, cbsVars, pc, todo, backupVars, chain, pos,
                    loaded, cleared, flushed, restores>>
    BY DEF Change, Arrive, Remove
  <2>5. touched' \subseteq File \cup {"db"}
    BY DEF Change, Arrive, Remove, Touch, RestoreTypes
  <2> QED BY <2>1, <2>3, <2>4, <2>5 DEF Entry, SiteTypes, CbsTypes, BackupTypes,
             RestoreTypes, cbsVars, backupVars
<1>2. CASE ChangeDB
  <2>1. changes + 1 \in Version /\ changes + 1 \in Held
    BY <1>2, BoundsAssumption DEF ChangeDB, Spend, SiteTypes, Version, Held
  <2> QED BY <1>2, <2>1 DEF ChangeDB, Spend, Touch, SiteTypes, CbsTypes,
             BackupTypes, RestoreTypes, cbsVars, backupVars
<1>3. CASE Serve
  BY <1>3 DEF Serve, SiteTypes, CbsTypes, BackupTypes, RestoreTypes, cbsVars,
              backupVars, restoreVars
<1>4. CASE Tick
  <2>1. now' \in Clock
    BY <1>4, BoundsAssumption DEF Tick, Clock, SiteTypes
  <2> QED BY <1>4, <2>1 DEF Tick, SiteTypes, CbsTypes, BackupTypes, RestoreTypes,
             siteVars, cbsVars, backupVars, restoreVars
<1> QED BY <1>1, <1>2, <1>3, <1>4 DEF Site

LEMMA NoBackupTypes == ASSUME NoBackup PROVE BackupTypes'
<1>1. Empty \in Member /\ Unread \in Seen
  BY DEF Empty, Member, Unread, Seen
<1>2. NoHdr \in [file : File \cup {NoFile}, ver : Held \cup {Absent}]
  BY DEF NoHdr
<1>3. 0 \in Clock
  BY BoundsAssumption DEF Clock
<1> QED BY <1>1, <1>2, <1>3 DEF NoBackup, BackupTypes, NoCursor

LEMMA BackupTypesStep ==
  ASSUME Full, Backup
  PROVE  TypeOK'
<1> USE DEF Full, TypeOK
<1>1. ~Commit => UNCHANGED <<siteVars, now, cbsVars, restoreVars>>
  BY DEF Backup, StartBackup, Dump, ListContent, Copy, BackupFails, Skip, Header
<1>2. ~Commit => SiteTypes' /\ CbsTypes' /\ RestoreTypes'
  BY <1>1 DEF SiteTypes, CbsTypes, RestoreTypes, siteVars, cbsVars, restoreVars
<1>3. CASE StartBackup
  <2>1. since' \in Clock /\ next' \in Clock
    BY <1>3, BoundsAssumption DEF StartBackup, NoCursor, Clock, SiteTypes, CbsTypes
  <2> QED BY <1>2, <1>3, <2>1 DEF StartBackup, Goto, BackupTypes, Commit
<1>4. CASE Dump
  BY <1>2, <1>4 DEF Dump, Goto, BackupTypes, SiteTypes, Commit
<1>5. CASE ListContent
  <2>1. seen' \in Seen /\ todo' \subseteq File
    BY <1>5 DEF ListContent, Seen
  <2> QED BY <1>2, <1>5, <2>1 DEF ListContent, Goto, BackupTypes, Commit
<1>6. CASE \E f \in File : Skip(f) \/ Header(f)
  <2> PICK f \in File : Skip(f) \/ Header(f)
    BY <1>6
  <2>1. live[f] \in Entry
    BY DEF SiteTypes, Entry
  <2>2. CASE Skip(f)
    <3>1. seen' \in Seen
      BY <2>1, <2>2 DEF Skip, BackupTypes, Seen, Entry
    <3>2. UNCHANGED <<since, next, sdb, stream, hdr, short>> /\ pc' = "walk"
          /\ todo' \subseteq File /\ ~Commit
      BY <2>2 DEF Skip, Goto, Commit
    <3> QED BY <1>2, <3>1, <3>2 DEF BackupTypes
  <2>3. CASE Header(f)
    <3>1. hdr' \in [file : File \cup {NoFile}, ver : Held \cup {Absent}]
      BY <2>1, <2>3 DEF Header, Entry
    <3>2. UNCHANGED <<since, next, sdb, stream, seen, short>> /\ pc' = "copy"
          /\ todo' \subseteq File /\ ~Commit
      BY <2>3 DEF Header, Goto, Commit
    <3> QED BY <1>2, <3>1, <3>2 DEF BackupTypes
  <2> QED BY <2>2, <2>3
<1>7. CASE Copy
  <2> PICK f : f = hdr.file
    OBVIOUS
  <2>1. f \in File /\ pc' = "walk" /\ ~Commit
    BY <1>7 DEF Copy, Goto, Commit, Inv, Shape
  <2>2. live[f].ver \in Held
    BY <1>7, <2>1 DEF Copy, SiteTypes
  <2>3. seen' \in Seen
    BY <1>7, <2>1, <2>2 DEF Copy, BackupTypes, Seen
  <2>4. stream' \in Member /\ short' \in BOOLEAN
    BY <1>7, <2>1, <2>2 DEF Copy, BackupTypes, Member, Held
  <2>5. hdr' \in [file : File \cup {NoFile}, ver : Held \cup {Absent}]
    BY <1>7 DEF Copy, NoHdr
  <2>6. UNCHANGED <<since, next, sdb, todo>>
    BY <1>7 DEF Copy
  <2> QED BY <1>2, <2>1, <2>3, <2>4, <2>5, <2>6 DEF BackupTypes
<1>8. CASE BackupFails
  BY <1>8, NoBackupTypes DEF BackupFails, SiteTypes, CbsTypes, RestoreTypes,
                              siteVars, cbsVars, restoreVars
<1>9. CASE Commit
  <2> PICK id : id = count + 1
    OBVIOUS
  <2>1. /\ pc' = "idle" /\ todo' = todo /\ UNCHANGED <<siteVars, now, restoreVars>>
        /\ count' = id /\ backups' = [backups EXCEPT ![id] = Recorded]
        /\ tip' \in {id, tip} /\ cursor' \in {next, cursor}
        /\ NoBackup
    BY <1>9 DEF Commit, Goto
  <2>2. id \in Id /\ id \in 1..MaxBackups /\ count \in Nat
    BY <1>9, BoundsAssumption DEF Commit, Goto, Inv, Shape, Id
  <2>3. Recorded \in Record
    <3> PICK base : base = IF since # NoCursor THEN backups[tip] ELSE Blank
      OBVIOUS
    <3>1. base \in Record
      BY AlienRecord, BoundsAssumption DEF CbsTypes, Id, Foreign
    <3>2. Append(base.chain, id) \in Seq(0..MaxBackups)
      BY <2>2, <3>1 DEF Record
    <3>3. Overlay(base.image, stream) \in [File -> Held \cup {Absent}]
      BY <3>1 DEF Record, Overlay, BackupTypes, Member
    <3>4. sdb \in Held \cup {0} /\ stream \in Member /\ seen \in Seen
          /\ short \in BOOLEAN
      BY DEF BackupTypes
    <3>5. Recorded = [members |-> stream, db |-> sdb, delta |-> since # NoCursor,
                      chain |-> Append(base.chain, id), torn |-> short,
                      image |-> Overlay(base.image, stream), seen |-> seen]
      BY DEF Recorded
    <3> QED BY <3>2, <3>3, <3>4, <3>5 DEF Record
  <2>4. CbsTypes'
    BY <2>1, <2>2, <2>3 DEF CbsTypes, BackupTypes
  <2>5. SiteTypes' /\ RestoreTypes'
    BY <2>1 DEF SiteTypes, RestoreTypes, siteVars, restoreVars
  <2> QED BY <2>1, <2>4, <2>5, NoBackupTypes
<1> QED BY <1>3, <1>4, <1>5, <1>6, <1>7, <1>8, <1>9 DEF Backup

\* The element of the chain that is being read, if it is not foreign, is linked.
LEMMA ElementOfChain ==
  ASSUME Full, Restoring
  PROVE  /\ chain[pos] \in Id \cup {Foreign}
         /\ chain # <<Foreign>> => /\ Linked(chain, pos)
                                   /\ \A k \in 1..Len(chain) : Linked(chain, k)
                                   /\ chain[Len(chain)] \in 1..count
                                   /\ chain[pos] \in 1..count
         /\ chain = <<Foreign>> => ~HasDump
<1> USE DEF Full, AppliedInv, Applied
<1>1. pos \in 1..Len(chain) /\ 1..count \subseteq Id
  BY BoundsAssumption DEF TypeOK, CbsTypes, Id
<1>2. CASE chain = <<Foreign>>
  <2>1. pos = 1 /\ chain[pos] = Foreign
    BY <1>1, <1>2
  <2>2. backups[Foreign].db = 0
    BY AlienRecord DEF LinkInv
  <2> QED BY <1>2, <2>1, <2>2 DEF HasDump, Element
<1>3. CASE chain # <<Foreign>>
  <2>1. PICK id \in 1..count : IsChain(chain, id)
    BY <1>3 DEF LinkInv
  <2>2. Len(chain) \in Nat /\ Len(chain) \in 1..Len(chain)
    BY <2>1 DEF IsChain
  <2> QED BY <1>1, <1>3, <2>1, <2>2, ElementsInRange DEF IsChain
<1> QED BY <1>2, <1>3

LEMMA RestoreTypesStep ==
  ASSUME Full, Restore
  PROVE  TypeOK'
<1> USE DEF Full, TypeOK
<1>1. UNCHANGED <<now, changes, cbsVars, backupVars>>
  BY DEF Restore, StartRestore, Extract, LoadDB, ClearOnce, EndElement, Flush,
         FinishRestore, RestoreFails, siteVars
<1>2. CbsTypes' /\ BackupTypes'
  BY <1>1 DEF CbsTypes, BackupTypes, cbsVars, backupVars
<1>3. CASE \E id \in 0..count : StartRestore(id)
  <2> PICK id \in 0..count : StartRestore(id)
    BY <1>3
  <2>1. chain' \in Seq(0..MaxBackups)
    <3>1. CASE id = Foreign
      <4>1. <<Foreign>> \in Seq(0..MaxBackups)
        BY BoundsAssumption DEF Foreign
      <4> QED BY <3>1, <4>1 DEF StartRestore
    <3>2. CASE id # Foreign
      <4>1. backups[id] \in Record
        BY <3>2, BoundsAssumption DEF CbsTypes, Id, Foreign
      <4> QED BY <3>2, <4>1 DEF StartRestore, Record
    <3> QED BY <3>1, <3>2
  <2>2. todo' \subseteq File
    BY DEF StartRestore, Members
  <2>3. /\ UNCHANGED <<siteVars, loaded, cleared, flushed, touched>>
        /\ pos' = 1 /\ restores' = restores + 1 /\ pc' = "read"
    BY DEF StartRestore, Goto
  <2>4. RestoreTypes'
    BY <2>1, <2>3 DEF RestoreTypes
  <2>5. SiteTypes'
    BY <1>1, <2>3 DEF SiteTypes, siteVars
  <2> QED BY <1>2, <2>2, <2>3, <2>4, <2>5
<1>4. CASE LoadDB
  <2>1. backups[chain[pos]] \in Record
    BY <1>4, ElementOfChain DEF LoadDB, Goto, Restoring, CbsTypes
  <2>2. db' \in Held
    BY <1>4, <2>1 DEF LoadDB, HasDump, Element, Record
  <2>3. /\ UNCHANGED <<live, cache, todo, chain, pos, cleared, flushed, restores>>
        /\ pc' = "read" /\ loaded' = TRUE /\ touched' \subseteq touched
    BY <1>4 DEF LoadDB, Goto
  <2> QED BY <1>1, <1>2, <2>2, <2>3 DEF SiteTypes, RestoreTypes
<1>5. CASE ClearOnce
  <2>1. Gone \in Entry
    BY BoundsAssumption DEF Gone, Entry, Clock
  <2>2. live' \in [File -> Entry]
    BY <1>5, <2>1 DEF ClearOnce
  <2>3. /\ UNCHANGED <<db, cache, todo, chain, pos, loaded, flushed, restores>>
        /\ pc' = "read" /\ cleared' = TRUE /\ touched' \subseteq touched
    BY <1>5 DEF ClearOnce, Goto
  <2> QED BY <1>1, <1>2, <2>2, <2>3 DEF SiteTypes, RestoreTypes, Entry
<1>6. CASE \E f \in File : Extract(f)
  <2> PICK f \in File : Extract(f)
    BY <1>6
  <2>1. f \in Members(chain[pos]) /\ pc = "read"
    BY DEF Extract, Goto, Inv, Shape
  <2>2. backups[chain[pos]] \in Record
    BY <2>1, ElementOfChain DEF Restoring, CbsTypes
  <2>3. Element.members[f] \in Held
    BY <2>1, <2>2 DEF Members, Element, Record, Member
  <2>4. live' \in [File -> Entry]
    BY <2>3 DEF Extract, SiteTypes, Entry
  <2>5. /\ UNCHANGED <<db, cache, chain, pos, loaded, cleared, flushed, restores>>
        /\ pc' = "read" /\ todo' \subseteq todo /\ touched' \subseteq touched
    BY DEF Extract, Goto
  <2> QED BY <1>1, <1>2, <2>4, <2>5 DEF SiteTypes, RestoreTypes, Entry
<1>7. CASE EndElement
  BY <1>2, <1>7 DEF EndElement, Goto, SiteTypes, RestoreTypes, siteVars,
                    restoreVars
<1>8. CASE Flush
  <2>1. todo' \subseteq File /\ pos' \in Nat /\ pc' \in {"read", "restored"}
        /\ loaded' \in BOOLEAN /\ cleared' \in BOOLEAN
    <3>1. CASE pos < Len(chain)
      <4>1. Members(chain[pos + 1]) \subseteq File
        BY DEF Members
      <4>2. pc' = "read" /\ pos' = pos + 1 /\ todo' = Members(chain[pos + 1])
            /\ loaded' = FALSE /\ cleared' = FALSE
        BY <1>8, <3>1 DEF Flush, NextElement
      <4>3. pos \in Nat
        BY DEF RestoreTypes
      <4>4. pos' \in Nat
        BY <4>2, <4>3
      <4> QED BY <4>1, <4>2, <4>4
    <3>2. CASE ~(pos < Len(chain))
      BY <1>8, <3>2 DEF Flush, NextElement, RestoreTypes
    <3> QED BY <3>1, <3>2
  <2>2. cache' \in Held \cup {0} /\ flushed' \in BOOLEAN
        /\ UNCHANGED <<live, db, chain, touched, restores>>
    BY <1>8 DEF Flush, SiteTypes
  <2> QED BY <1>1, <1>2, <2>1, <2>2 DEF SiteTypes, RestoreTypes
<1>9. CASE FinishRestore \/ RestoreFails
  <2>1. RestoreTypes'
    <3>1. <<>> \in Seq(0..MaxBackups)
      OBVIOUS
    <3>2. NoRestore /\ restores' = restores
      BY <1>9 DEF FinishRestore, RestoreFails
    <3> QED BY <3>1, <3>2 DEF NoRestore, RestoreTypes
  <2>2. live' \in [File -> Entry]
    <3>1. {[ver |-> Torn, mtime |-> now, old |-> FALSE], Gone} \subseteq Entry
      BY BoundsAssumption DEF Entry, Held, SiteTypes, Gone, Clock
    <3>2. live \in [File -> Entry]
      BY DEF SiteTypes, Entry
    <3>3. CASE UNCHANGED live
      BY <3>2, <3>3
    <3>4. CASE ClearCut
      BY <3>1, <3>2, <3>4 DEF ClearCut
    <3>5. CASE ExtractCut
      BY <3>1, <3>2, <3>5 DEF ExtractCut
    <3> QED BY <1>9, <3>3, <3>4, <3>5 DEF FinishRestore, RestoreFails, LoadCut,
               siteVars
  <2>3. db' \in Held /\ cache' = cache /\ pc' = "idle" /\ todo' \subseteq File
    BY <1>9 DEF FinishRestore, RestoreFails, LoadCut, ClearCut, ExtractCut, Goto,
         siteVars, SiteTypes, Held
  <2> QED BY <1>1, <1>2, <2>1, <2>2, <2>3 DEF SiteTypes, Entry
<1> QED BY <1>3, <1>4, <1>5, <1>6, <1>7, <1>8, <1>9 DEF Restore

(***************************************************************************)
(* While a restore applies its chain, what the site does itself is exempt, *)
(* and each step of the restore moves one file, or the database, from the  *)
(* image before the element to the image of the element.                   *)
(***************************************************************************)
LEMMA AppliedKept ==
  ASSUME Full, UNCHANGED <<cbsVars, pc, todo, chain, pos, loaded, cleared>>,
         Restoring => /\ touched \subseteq touched'
                      /\ \A f \in File \ touched' : live'[f] = live[f]
                      /\ "db" \in touched' \/ db' = db
  PROVE  AppliedInv'
<1> USE DEF Full, cbsVars
<1>1. Restoring' = Restoring /\ Element' = Element /\ IsBase' = IsBase
      /\ Before(chain, pos)' = Before(chain, pos)
      /\ Members(chain[pos])' = Members(chain[pos])
  BY DEF Restoring, Element, IsBase, Before, Members
<1>2. TornKept => TornKept'
  BY <1>1 DEF TornKept
<1>3. Restoring /\ Applied => Applied'
  BY <1>1, <1>2 DEF Applied
<1> QED BY <1>1, <1>3 DEF AppliedInv

LEMMA AppliedOutside ==
  ASSUME Full, Site \/ Backup \/ UNCHANGED vars
  PROVE  AppliedInv'
<1> USE DEF Full
<1>1. CASE Site
  <2>1. UNCHANGED <<cbsVars, pc, todo, chain, pos, loaded, cleared>>
    BY <1>1 DEF Site, Change, Arrive, Remove, ChangeDB, Serve, Tick, restoreVars
  <2>2. ASSUME Restoring
        PROVE  /\ touched \subseteq touched'
               /\ \A f \in File \ touched' : live'[f] = live[f]
               /\ "db" \in touched' \/ db' = db
    <3>1. CASE \E f \in File : Change(f) \/ Arrive(f) \/ Remove(f)
      <4> PICK f \in File : Change(f) \/ Arrive(f) \/ Remove(f)
        BY <3>1
      <4>1. touched' = touched \cup {f} /\ db' = db
        BY <2>2 DEF Change, Arrive, Remove, Touch
      <4>2. \A g \in File : g # f => live'[g] = live[g]
        BY DEF Change, Arrive, Remove, Inv, Shape
      <4> QED BY <4>1, <4>2
    <3>2. CASE ChangeDB \/ Serve \/ Tick
      BY <2>2, <3>2 DEF ChangeDB, Serve, Tick, Touch, siteVars, restoreVars
    <3> QED BY <1>1, <3>1, <3>2 DEF Site
  <2> QED BY <2>1, <2>2, AppliedKept
<1>2. CASE Backup
  <2>1. ~Restoring /\ ~Restoring' /\ UNCHANGED <<loaded, cleared>>
    BY <1>2 DEF Backup, StartBackup, Dump, ListContent, Copy, Commit,
         BackupFails, Skip, Header, Goto, Restoring, restoreVars
  <2> QED BY <2>1 DEF AppliedInv
<1>3. CASE UNCHANGED vars
  BY <1>3, AppliedKept DEF vars, siteVars, restoreVars
<1> QED BY <1>1, <1>2, <1>3

LEMMA TornIsMember ==
  ASSUME Full, NEW id \in 1..count, backups[id].torn
  PROVE  \E f \in Members(id) : backups[id].members[f] = Torn
<1> PICK f \in File : backups[id].members[f] = Torn
  BY DEF Full, TornInv
<1> QED BY DEF Members, Torn, NotIn

LEMMA AppliedStart ==
  ASSUME Full, NEW id \in 0..count, StartRestore(id)
  PROVE  AppliedInv'
<1> USE DEF Full
<1>1. /\ pc = "idle" /\ pc' = "read" /\ pos' = 1
      /\ UNCHANGED <<loaded, cleared, count, backups>>
      /\ chain' = IF id = Foreign THEN <<Foreign>> ELSE backups[id].chain
  BY DEF StartRestore, Goto, cbsVars
<1>2. ~loaded /\ ~cleared /\ Restoring'
  BY <1>1 DEF AppliedInv, Restoring
<1>3. CASE id = Foreign
  BY <1>1, <1>2, <1>3 DEF AppliedInv
<1>4. CASE id # Foreign
  <2>1. id \in 1..count /\ chain' = backups[id].chain
    BY <1>1, <1>4, BoundsAssumption DEF Foreign, Inv, Shape
  <2>2. IsChain(chain', id)
    BY <2>1 DEF LinkInv
  <2>3. pos' \in 1..Len(chain')
    BY <1>1, <2>2 DEF IsChain
  <2>4. todo' = Members(chain[pos])'
    <3>1. todo' = Members(chain'[1])
      BY <1>4 DEF StartRestore
    <3>2. todo' = {f \in File : backups[chain'[1]].members[f] # NotIn}
      BY <3>1 DEF Members
    <3> QED BY <1>1, <3>2 DEF Members
  <2>5. chain' # <<Foreign>>
    BY <2>1, <2>2, <2>3, ElementsInRange DEF IsChain, Foreign
  <2>6. TornKept'
    <3>1. chain'[pos'] \in 1..count
      BY <2>2, <2>3, ElementsInRange DEF IsChain
    <3>2. Element' = backups[chain'[pos']]
          /\ todo' = {f \in File : backups[chain'[pos']].members[f] # NotIn}
      BY <1>1, <2>4 DEF Element, Members
    <3> DEFINE e == chain'[pos']
    <3>3. backups[e].torn => \E f \in todo' : backups[e].members[f] = Torn
      BY <3>1, <3>2, TornIsMember DEF Members
    <3> QED BY <1>1, <3>2, <3>3 DEF TornKept
  <2>7. Applied'
    <3>1. \E b \in 1..count' : chain' = backups'[b].chain
      BY <1>1, <2>1
    <3>2. ~loaded' /\ ~cleared' /\ pc' = "read" /\ IsBase'
      BY <1>1, <1>2 DEF IsBase
    <3> QED BY <2>4, <2>6, <3>1, <3>2 DEF Applied
  <2> QED BY <1>1, <1>2, <2>3, <2>5, <2>7 DEF AppliedInv
<1> QED BY <1>3, <1>4

LEMMA AppliedRead ==
  ASSUME Full, LoadDB \/ ClearOnce \/ \E f \in File : Extract(f)
  PROVE  AppliedInv'
<1> USE DEF Full
<1>1. /\ pc = "read" /\ pc' = "read" /\ UNCHANGED <<chain, pos, count, backups>>
      /\ Restoring
  BY DEF LoadDB, ClearOnce, Extract, Goto, Restoring, cbsVars
<1>2. Restoring' /\ Element' = Element /\ IsBase' = IsBase
      /\ Before(chain, pos)' = Before(chain, pos)
      /\ Members(chain[pos])' = Members(chain[pos])
  BY <1>1 DEF Restoring, Element, IsBase, Before, Members
<1>3. CASE chain = <<Foreign>>
  <2>1. ~loaded'
    BY <1>1, <1>3, ElementOfChain
    DEF LoadDB, ClearOnce, Extract, AppliedInv
  <2> QED BY <1>1, <1>2, <1>3, <2>1 DEF AppliedInv
<1>4. CASE chain # <<Foreign>>
  <2>1. Applied /\ pos \in 1..Len(chain) /\ Linked(chain, pos)
    BY <1>1, <1>4, ElementOfChain DEF AppliedInv
  <2>2. Element.image = Overlay(Before(chain, pos), Element.members)
    BY <2>1 DEF Linked, Element
  <2>3. "db" \notin File
    BY FilesAssumption DEF File
  <2>4. Applied'
    <3>1. CASE LoadDB
      <4>1. UNCHANGED <<live, todo, cleared>> /\ db' = Element.db
            /\ touched' = touched \ {"db"}
        BY <3>1 DEF LoadDB
      <4>2. TornKept'
        BY <1>1, <1>2, <2>1, <4>1 DEF Applied, TornKept
      <4> QED BY <1>1, <1>2, <2>1, <2>3, <4>1, <4>2 DEF Applied
    <3>2. CASE ClearOnce
      <4>1. /\ UNCHANGED <<db, todo, loaded>> /\ pos = 1 /\ ~cleared /\ cleared'
            /\ touched' = touched \ File
            /\ \A f \in File : live'[f].ver = Absent
        BY <3>2 DEF ClearOnce, IsBase, Gone
      <4>2. todo = Members(chain[pos])
        BY <1>1, <2>1, <4>1 DEF Applied, IsBase
      <4>3. \A f \in File : Before(chain, pos)[f] = Absent
        BY <4>1 DEF Before, Blank
      <4>4. \A f \in File \ todo : Element.image[f] = Absent
        BY <2>2, <4>2, <4>3 DEF Overlay, Members, Element
      <4>5. TornKept'
        BY <1>1, <1>2, <2>1, <4>1 DEF Applied, TornKept
      <4> QED BY <1>1, <1>2, <2>1, <2>3, <4>1, <4>3, <4>4, <4>5 DEF Applied
    <3>3. CASE \E f \in File : Extract(f)
      <4> PICK f \in File : Extract(f)
        BY <3>3
      <4>1. /\ UNCHANGED <<db, loaded, cleared>> /\ (IsBase => cleared)
            /\ f \in todo /\ todo' = todo \ {f} /\ touched' = touched \ {f}
            /\ live'[f].ver = Element.members[f]
            /\ \A g \in File : g # f => live'[g] = live[g]
        BY DEF Extract, Inv, Shape
      <4>2. Element.members[f] # NotIn
        BY <1>1, <4>1 DEF Inv, Shape, Members, Element
      <4>3. Element.image[f] = Element.members[f]
        BY <2>2, <4>2 DEF Overlay
      <4>4. \A g \in File \ touched' :
              live'[g].ver = IF g \in todo' THEN Before(chain, pos)[g]
                                            ELSE Element.image[g]
        BY <1>1, <2>1, <4>1, <4>3 DEF Applied
      <4>5. ~(Element.torn /\ Element.members[f] = Torn)
        BY DEF Extract
      <4>6. TornKept'
        BY <1>1, <1>2, <2>1, <4>1, <4>5 DEF Applied, TornKept
      <4> QED BY <1>1, <1>2, <2>1, <2>3, <4>1, <4>4, <4>6 DEF Applied
    <3> QED BY <3>1, <3>2, <3>3
  <2> QED BY <1>1, <1>2, <1>4, <2>1, <2>4 DEF AppliedInv
<1> QED BY <1>3, <1>4

LEMMA AppliedEnd ==
  ASSUME Full, EndElement
  PROVE  AppliedInv'
<1> USE DEF Full
<1>1. /\ pc = "read" /\ pc' = "flush" /\ loaded /\ todo = {} /\ Restoring
      /\ IsBase /\ HasContent => cleared
      /\ UNCHANGED <<live, db, count, backups, todo, chain, pos, loaded, cleared,
                     touched>>
  BY DEF EndElement, Goto, Restoring, siteVars, cbsVars, restoreVars
<1>2. chain # <<Foreign>> /\ Applied /\ pos \in 1..Len(chain)
  BY <1>1 DEF AppliedInv
<1>3. Linked(chain, pos)
  BY <1>1, <1>2, ElementOfChain
<1>4. IsBase => cleared
  BY <1>1, <1>3 DEF Linked, IsBase, HasContent, HasDump, Element
<1>5. Element' = Element /\ Restoring'
  BY <1>1 DEF Element, Restoring
<1>6. TornKept'
  BY <1>1, <1>2, <1>5 DEF Applied, TornKept
<1>7. Applied'
  BY <1>1, <1>2, <1>4, <1>5, <1>6 DEF Applied
<1> QED BY <1>1, <1>2, <1>5, <1>7 DEF AppliedInv

LEMMA AppliedFlush ==
  ASSUME Full, Flush
  PROVE  AppliedInv'
<1> USE DEF Full
<1>1. /\ pc = "flush" /\ Restoring /\ NextElement
      /\ UNCHANGED <<live, db, count, backups, chain, touched>>
  BY DEF Flush, Restoring, cbsVars
<1>2. /\ chain # <<Foreign>> /\ Applied /\ pos \in 1..Len(chain)
      /\ \A f \in File \ touched : live[f].ver = Element.image[f]
  BY <1>1 DEF AppliedInv, Applied
<1>3. CASE pos < Len(chain)
  <2>1. /\ pc' = "read" /\ pos' = pos + 1 /\ ~loaded' /\ ~cleared'
        /\ todo' = Members(chain[pos + 1])
    BY <1>1, <1>3 DEF NextElement
  <2>2. pos + 1 \in 1..Len(chain) /\ pos + 1 # 1
    BY <1>2, <1>3 DEF TypeOK, RestoreTypes
  <2>3. Linked(chain, pos + 1)
    BY <1>1, <1>2, <2>2, ElementOfChain
  <2>4. Before(chain, pos + 1) = Element.image
    BY <1>2, <2>2 DEF Before, Element
  <2>5. \A f \in File \ todo' :
          backups[chain[pos + 1]].image[f] = Element.image[f]
    BY <2>1, <2>3, <2>4 DEF Linked, Overlay, Members
  <2>6. Before(chain, pos)' = Before(chain, pos + 1)
        /\ Element' = backups[chain[pos + 1]] /\ ~IsBase'
    BY <1>1, <2>1, <2>2 DEF Before, Element, IsBase
  <2>7. TornKept'
    <3>1. chain[pos + 1] \in 1..count
      <4>1. PICK b \in 1..count : chain = backups[b].chain
        BY <1>2 DEF Applied
      <4>2. chain \in Seq(1..count)
        BY <4>1 DEF LinkInv, IsChain
      <4> QED BY <2>2, <4>2, ElementsInRange
    <3> QED BY <2>1, <2>6, <3>1, TornIsMember DEF TornKept
  <2>8. Applied'
    BY <1>1, <1>2, <2>1, <2>4, <2>5, <2>6, <2>7 DEF Applied
  <2> QED BY <1>1, <1>2, <2>1, <2>2, <2>8 DEF AppliedInv
<1>4. CASE ~(pos < Len(chain))
  <2>1. pc' = "restored" /\ UNCHANGED <<pos, todo, loaded, cleared>>
    BY <1>1, <1>4 DEF NextElement
  <2>2. pos = Len(chain)
    BY <1>2, <1>4 DEF TypeOK, RestoreTypes
  <2>3. TornKept'
    BY <1>1, <1>2, <2>1 DEF Applied, TornKept, Element
  <2>4. Applied'
    BY <1>1, <1>2, <2>1, <2>3 DEF Applied, Element
  <2> QED BY <1>1, <1>2, <2>1, <2>2, <2>4 DEF AppliedInv, Restoring
<1> QED BY <1>3, <1>4

LEMMA AppliedOver ==
  ASSUME FinishRestore \/ RestoreFails
  PROVE  AppliedInv'
BY DEF FinishRestore, RestoreFails, Goto, NoRestore, AppliedInv, Restoring

LEMMA NextFull == Full /\ [Next]_vars => Full'
<1> SUFFICES ASSUME Full, [Next]_vars PROVE Full'
  OBVIOUS
<1>1. Inv'
  BY NextInv DEF Full
<1>2. TypeOK'
  <2>1. CASE UNCHANGED vars
    BY <2>1 DEF Full, TypeOK, SiteTypes, CbsTypes, BackupTypes, RestoreTypes,
                vars, siteVars, cbsVars, backupVars, restoreVars
  <2> QED BY <2>1, SiteTypesStep, BackupTypesStep, RestoreTypesStep DEF Next
<1>3. LinkInv'
  <2>1. CASE UNCHANGED vars
    BY <2>1, LinkKept DEF Full, LinkInv, vars, siteVars, backupVars
  <2> QED BY <2>1, LinkStep, LinkCommit
<1>4. AppliedInv'
  BY AppliedOutside, AppliedStart, AppliedRead, AppliedEnd, AppliedFlush,
     AppliedOver DEF Next, Restore
<1>5. TornInv'
  BY TornStep
<1> QED BY <1>1, <1>2, <1>3, <1>4, <1>5 DEF Full

\* Every variable of WordPress has its type.
THEOREM WordPressTypes == Spec => []TypeOK
<1>1. Full => TypeOK
  BY DEF Full
<1> QED BY <1>1, InitFull, NextFull, PTL DEF Spec

\* The inductive invariant of the run holds for every value of the constants.
THEOREM WordPressInvariant == Spec => []WholeInv
<1>1. Full => WholeInv
  BY DEF Full, Inv, WholeInv
<1> QED BY <1>1, InitFull, NextFull, PTL DEF Spec

(***************************************************************************)
(* sdk.go:681-711, main.go:251-433: a restore that reports done, through a *)
(* chain of any length, has left every file as the target's chain has it,  *)
(* none that it does not have, and the target's database, except for what  *)
(* the site itself changed while it ran; and every file that the walk of   *)
(* the target met is back as the walk met it.                              *)
(***************************************************************************)
THEOREM RestoreYieldsImage == Spec => []RestoredIsImage
<1>1. Full => RestoredIsImage
  <2> SUFFICES ASSUME Full, pc = "restored"
               PROVE  /\ chain[Len(chain)] \in 1..count
                      /\ \A f \in File \ touched : live[f].ver = Target.image[f]
                      /\ "db" \notin touched => db = Target.db
                      /\ \A f \in Content \ touched :
                           Target.seen[f] \notin {Unseen, Absent}
                             => live[f].ver = Target.seen[f]
    BY DEF RestoredIsImage
  <2>1. chain # <<Foreign>> /\ Applied /\ pos = Len(chain) /\ Restoring
    BY DEF Full, AppliedInv, Restoring
  <2>2. Element = Target
    BY <2>1 DEF Element, Target
  <2>3. chain[Len(chain)] \in 1..count
    BY <2>1, ElementOfChain
  <2>4. /\ \A f \in File \ touched : live[f].ver = Target.image[f]
        /\ "db" \notin touched => db = Target.db
    BY <2>1, <2>2 DEF Applied
  <2>5. ~Target.torn
    BY <2>1, <2>2 DEF Applied, TornKept
  <2>6. ASSUME NEW f \in Content \ touched, Target.seen[f] \notin {Unseen, Absent}
        PROVE  live[f].ver = Target.seen[f]
    <3>1. Target.image[f] = Target.seen[f]
      BY <2>3, <2>5, <2>6 DEF Full, Inv, SiteInv, ChainIsFaithful, Target
    <3> QED BY <2>4, <3>1 DEF File
  <2> QED BY <2>3, <2>4, <2>6
<1> QED BY <1>1, InitFull, NextFull, PTL DEF Spec
=============================================================================
