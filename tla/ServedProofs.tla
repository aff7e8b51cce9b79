---------------------------- MODULE ServedProofs ----------------------------
(***************************************************************************)
(* Proofs about what others are told: bundles served from the caches are   *)
(* fresh and rows current when processes take turns, the comparison of     *)
(* graphql_breaking.py is right for types of any depth and any surfaces,   *)
(* the gate of a hub fails for what the declarations call a break, the     *)
(* verdicts are those of the declarations whatever their order, and bodies *)
(* that are passed can be read.                                            *)
(***************************************************************************)
EXTENDS BundleCache, Federation, SequenceTheorems, WellFoundedInduction, TLAPS

-----------------------------------------------------------------------------
(* The inductive invariant of the caches.                                  *)

WorkFields == {"pc", "job", "req", "full", "seen", "tag", "asked", "bundle"}
Stages == {"idle", "scan", "index", "stamp", "dispatch", "l2", "build", "store"}
Caching == {"l2", "build", "store"}
Due(q) == Dated \cap Shown(q)

Clock ==
  /\ now \in Nat /\ lastReindex \in Nat /\ lastReindex <= now
  /\ disk \in [OnDisk -> Nat] /\ fileIdx \in [OnDisk -> Nat] /\ index \in [Parts -> Nat]
  /\ mtime \in [Dated -> Nat] /\ noticed \in [Dated -> Nat] /\ peak \in [Dated -> Nat]
  /\ \A p \in OnDisk : disk[p] <= now /\ fileIdx[p] <= now
  /\ \A d \in Dated : noticed[d] <= mtime[d] /\ mtime[d] <= disk[d] /\ peak[d] <= now

\* Where an edit that was noticed is not in the tables yet, both ways of finding it work:
\* file_index differs from the disk, and the last reindex is older than the edit.
IndexTells ==
  \A d \in Dated : index[d] >= noticed[d] \/ (disk[d] # fileIdx[d] /\ lastReindex < noticed[d])

Alone == \A p, o \in Procs : p # o => work[p] = Idle \/ work[o] = Idle

Entry(e) ==
  /\ e.bundle \in [Parts -> Nat] /\ e.tag \in [Dated -> Nat]
  /\ \A d \in Dated : e.tag[d] <= now

\* A bundle in a server's dictionary misses an edit only if its tag gives it away.
KeptOK(q, e) ==
  e # None => /\ Entry(e)
              /\ \A d \in Due(q) : e.bundle[d] >= noticed[d] \/ e.tag[d] < noticed[d]

\* A row may also have been built by the command line from tables that are behind, and
\* then they still are; unless outdated it is what would be built.
RowOK(q, e) ==
  e # None =>
    /\ Entry(e)
    /\ \A d \in Due(q) : e.bundle[d] >= noticed[d] \/ e.tag[d] < noticed[d] \/ index[d] < noticed[d]
    /\ Newest(q, e) => \A p \in Shown(q) \ {"sync"} : e.bundle[p] = index[p]

CachesOK ==
  /\ DOMAIN l1 = Servers /\ DOMAIN l2 = Requests
  /\ \A s \in Servers : DOMAIN l1[s] = Requests /\ \A q \in Requests : KeptOK(q, l1[s][q])
  /\ \A q \in Requests : RowOK(q, l2[q])

\* What each stage of a reindex and of a call has made sure of.
Shaped(p) ==
  /\ DOMAIN work[p] = WorkFields /\ work[p].pc \in Stages
  /\ work[p].pc = "idle" => work[p] = Idle
  /\ (p \in Servers /\ work[p].pc # "idle") => work[p].req \in Requests
  /\ work[p].pc \in Caching => work[p].req \in Requests
Scanned(p) ==
  work[p].pc \in {"index", "stamp"} =>
    /\ work[p].seen \in [OnDisk -> Nat] /\ \A i \in OnDisk : work[p].seen[i] <= now
    /\ \A d \in Dated : index[d] >= noticed[d]
                        \/ (work[p].pc = "index" /\ work[p].seen[d] # fileIdx[d])
UpToDate(p) == work[p].pc = "dispatch" => \A d \in Dated : index[d] >= noticed[d]
Tagged(p) ==
  work[p].pc \in Caching => work[p].tag \in [Dated -> Nat] /\ \A d \in Dated : work[p].tag[d] <= now
Requested(p) ==
  (p \in Servers /\ work[p].pc \in Caching) =>
    /\ work[p].asked \in [Dated -> Nat]
    /\ \A d \in Due(work[p].req) : /\ index[d] >= work[p].asked[d]
                                   /\ noticed[d] <= work[p].asked[d] \/ work[p].tag[d] < noticed[d]
Acceptable(p) ==
  (p \in Servers /\ work[p].pc = "l2" /\ l2[work[p].req] # None) =>
    \A d \in Due(work[p].req) :
      l2[work[p].req].tag[d] >= work[p].tag[d] => l2[work[p].req].bundle[d] >= work[p].asked[d]
Built(p) == work[p].pc = "store" => work[p].bundle = Bundle(work[p].req)

WorkOK(p) ==
  /\ Shaped(p) /\ Scanned(p) /\ UpToDate(p) /\ Tagged(p)
  /\ Requested(p) /\ Acceptable(p) /\ Built(p)

CacheInv ==
  /\ Clock /\ IndexTells /\ Alone /\ CachesOK
  /\ DOMAIN work = Procs /\ \A p \in Procs : WorkOK(p)
  /\ DOMAIN answer = Servers /\ ServedIsFresh

-----------------------------------------------------------------------------
(* Lemmas.                                                                 *)

LEMMA PartsAre ==
  /\ Dated \subseteq OnDisk /\ OnDisk \subseteq Parts
  /\ \A q \in Requests : Shown(q) \subseteq Parts /\ Due(q) \subseteq Dated
                         /\ "graph" \in Due(q)
  BY DEF Dated, OnDisk, Parts, Shown, Due

LEMMA IdleIs ==
  /\ DOMAIN Idle = WorkFields /\ Idle.pc = "idle"
  BY DEF Idle, WorkFields

\* A process at rest has nothing to be right about.
LEMMA RestIsFine ==
  ASSUME NEW p, work[p] = Idle
  PROVE  WorkOK(p)
<1>1. DOMAIN work[p] = WorkFields /\ work[p].pc = "idle"
  BY IdleIs
<1> QED
  BY <1>1 DEF WorkOK, Shaped, Scanned, UpToDate, Tagged, Requested, Acceptable, Built, Stages, Caching

\* So while one process works it is the only one to look at.
LEMMA OthersRest ==
  ASSUME Alone, NEW p \in Procs, work[p] # Idle \/ (~Overlap /\ MayStart(p))
  PROVE  \A o \in Procs : o # p => work[o] = Idle
  BY DEF Alone, MayStart

\* What a step of a process has to show.
LEMMA OneProcess ==
  ASSUME CacheInv, NEW p \in Procs, work[p] # Idle \/ (~Overlap /\ MayStart(p)),
         DOMAIN work' = Procs, \A o \in Procs : o # p => work'[o] = work[o],
         WorkOK(p)'
  PROVE  /\ Alone' /\ DOMAIN work' = Procs /\ \A o \in Procs : WorkOK(o)'
<1>1. \A o \in Procs : o # p => work'[o] = Idle
  BY OthersRest DEF CacheInv
<1>2. \A o \in Procs : o # p => WorkOK(o)'
  <2>1. TAKE o \in Procs
  <2>2. HAVE o # p
  <2>3. DOMAIN work'[o] = WorkFields /\ work'[o].pc = "idle" /\ work'[o] = Idle
    BY <1>1, <2>2, IdleIs
  <2> QED
    BY <2>3 DEF WorkOK, Shaped, Scanned, UpToDate, Tagged, Requested, Acceptable, Built, Stages, Caching
<1>3. Alone'
  BY <1>1 DEF Alone
<1> QED
  BY <1>2, <1>3

-----------------------------------------------------------------------------
(* Authors: what they do reaches no table, no cache and no process.        *)

Edited ==
  /\ UNCHANGED <<index, fileIdx, lastReindex, l1, l2, work>> /\ now' = now + 1
  /\ disk' \in [OnDisk -> Nat] /\ mtime' \in [Dated -> Nat]
  /\ noticed' \in [Dated -> Nat] /\ peak' \in [Dated -> Nat]
  /\ \A i \in OnDisk : disk'[i] = disk[i] \/ disk'[i] = now'
  /\ \A d \in Dated : /\ noticed'[d] <= mtime'[d] /\ mtime'[d] <= disk'[d]
                      /\ peak'[d] >= peak[d] /\ peak'[d] <= now'
                      /\ \/ noticed'[d] = noticed[d] \/ noticed'[d] = 0
                         \/ noticed'[d] = now' /\ ~Unsettled
  /\ answer' = NoAnswers

LEMMA SaveEdits ==
  ASSUME Clock, NEW p \in OnDisk, Save(p)
  PROVE  Edited
<1>1. /\ now' = now + 1 /\ disk' = [disk EXCEPT ![p] = now'] /\ answer' = NoAnswers
      /\ UNCHANGED <<index, fileIdx, lastReindex, l1, l2, work>>
  BY DEF Save, tables
<1>2. /\ now' \in Nat /\ now' > now /\ disk' \in [OnDisk -> Nat]
      /\ \A i \in OnDisk : disk'[i] = disk[i] \/ disk'[i] = now'
      /\ \A d \in Dated : disk'[d] >= disk[d]
  BY <1>1, PartsAre DEF Clock
<1>3. CASE p \in Dated
  <2>1. /\ mtime' = [mtime EXCEPT ![p] = now'] /\ peak' = [peak EXCEPT ![p] = now']
        /\ noticed' = (IF Unsettled THEN noticed ELSE [noticed EXCEPT ![p] = now'])
    BY <1>3 DEF Save
  <2>2. mtime' \in [Dated -> Nat] /\ peak' \in [Dated -> Nat] /\ noticed' \in [Dated -> Nat]
    BY <2>1, <1>2 DEF Clock
  <2>3. ASSUME NEW d \in Dated
        PROVE  /\ noticed'[d] <= mtime'[d] /\ mtime'[d] <= disk'[d]
               /\ noticed'[d] = noticed[d] \/ (noticed'[d] = now' /\ ~Unsettled)
    <3>1. CASE d = p
      BY <3>1, <2>1, <1>1, <1>2, PartsAre DEF Clock
    <3>2. CASE d # p
      BY <3>2, <2>1, <1>1, <1>2, PartsAre DEF Clock
    <3> QED
      BY <3>1, <3>2
  <2>4. \A d \in Dated : peak'[d] >= peak[d] /\ peak'[d] <= now'
    BY <2>1, <1>2 DEF Clock
  <2> QED
    BY <1>1, <1>2, <2>2, <2>3, <2>4 DEF Edited
<1>4. CASE p \notin Dated
  <2>1. UNCHANGED <<mtime, peak, noticed>>
    BY <1>4 DEF Save
  <2> QED
    BY <1>1, <1>2, <2>1 DEF Edited, Clock
<1> QED
  BY <1>3, <1>4

LEMMA RemoveEdits ==
  ASSUME Clock, NEW p \in OnDisk, RemoveFile(p)
  PROVE  Edited
<1>1. /\ p \in Dated /\ now' = now + 1 /\ disk' = [disk EXCEPT ![p] = now'] /\ answer' = NoAnswers
      /\ UNCHANGED <<index, fileIdx, lastReindex, l1, l2, work, peak>>
  BY DEF RemoveFile, tables
<1>2. /\ now' \in Nat /\ now' > now /\ disk' \in [OnDisk -> Nat]
      /\ \A i \in OnDisk : disk'[i] = disk[i] \/ disk'[i] = now'
      /\ \A d \in Dated : disk'[d] >= disk[d]
  BY <1>1, PartsAre DEF Clock
<1>3. PICK newest \in {mtime[p], 0} :
        /\ mtime' = [mtime EXCEPT ![p] = newest]
        /\ noticed' = IF newest < mtime[p] THEN [noticed EXCEPT ![p] = 0] ELSE noticed
  BY DEF RemoveFile
<1>4. newest \in Nat /\ newest <= mtime[p]
  BY <1>1 DEF Clock
<1>5. mtime' \in [Dated -> Nat] /\ noticed' \in [Dated -> Nat]
  BY <1>3, <1>4 DEF Clock
<1>6. ASSUME NEW d \in Dated
      PROVE  /\ noticed'[d] <= mtime'[d] /\ mtime'[d] <= disk'[d]
             /\ noticed'[d] = noticed[d] \/ noticed'[d] = 0
  <2>1. CASE d = p
    <3>1. mtime'[d] = newest /\ mtime[d] <= disk[d] /\ noticed[d] <= mtime[d]
      BY <2>1, <1>1, <1>3 DEF Clock
    <3>2. CASE newest < mtime[p]
      BY <2>1, <3>1, <3>2, <1>1, <1>2, <1>3, <1>4, PartsAre DEF Clock
    <3>3. CASE newest = mtime[p]
      BY <2>1, <3>1, <3>3, <1>1, <1>2, <1>3, <1>4, PartsAre DEF Clock
    <3> QED
      BY <3>2, <3>3, <1>1, <1>4 DEF Clock
  <2>2. CASE d # p
    BY <2>2, <1>1, <1>2, <1>3, PartsAre DEF Clock
  <2> QED
    BY <2>1, <2>2
<1>7. peak' \in [Dated -> Nat] /\ \A d \in Dated : peak'[d] >= peak[d] /\ peak'[d] <= now'
  BY <1>1, <1>2 DEF Clock
<1> QED
  BY <1>1, <1>2, <1>5, <1>6, <1>7 DEF Edited

LEMMA NoAnswerIsFine ==
  ASSUME answer' = NoAnswers
  PROVE  DOMAIN answer' = Servers /\ ServedIsFresh'
  BY DEF NoAnswers, ServedIsFresh

LEMMA EditsKeepInv ==
  ASSUME CacheInv, Edited
  PROVE  CacheInv'
<1> USE DEF CacheInv
<1>1. now \in Nat /\ now' = now + 1 /\ now' \in Nat /\ lastReindex <= now /\ lastReindex' = lastReindex
  BY DEF Edited, Clock
<1>2. Clock'
  BY DEF Edited, Clock
<1>3. IndexTells'
  <2> SUFFICES ASSUME NEW d \in Dated
               PROVE  index[d] >= noticed'[d] \/ (disk'[d] # fileIdx[d] /\ lastReindex < noticed'[d])
    BY DEF IndexTells, Edited
  <2>1. /\ index[d] \in Nat /\ noticed[d] \in Nat /\ noticed'[d] \in Nat /\ disk[d] \in Nat
        /\ disk'[d] \in Nat /\ fileIdx[d] \in Nat /\ fileIdx[d] <= now /\ lastReindex \in Nat
        /\ noticed'[d] <= disk'[d] /\ disk[d] <= now
    BY <1>2, PartsAre DEF Clock, Edited
  <2>2. disk'[d] = disk[d] \/ disk'[d] = now'
    BY PartsAre DEF Edited
  <2>3. noticed'[d] = noticed[d] \/ noticed'[d] = 0 \/ noticed'[d] = now'
    BY DEF Edited
  <2>4. index[d] >= noticed[d] \/ (disk[d] # fileIdx[d] /\ lastReindex < noticed[d])
    BY DEF IndexTells
  <2> QED
    BY <1>1, <2>1, <2>2, <2>3, <2>4
<1>4. ASSUME NEW e, Entry(e) PROVE Entry(e)'
  BY <1>1, <1>4 DEF Entry
<1>5. ASSUME NEW e, Entry(e), NEW d \in Dated
      PROVE  /\ e.bundle[d] >= noticed[d] => e.bundle[d] >= noticed'[d] \/ e.tag[d] < noticed'[d]
             /\ e.tag[d] < noticed[d] => e.bundle[d] >= noticed'[d] \/ e.tag[d] < noticed'[d]
             /\ index[d] < noticed[d] => \/ e.bundle[d] >= noticed'[d] \/ e.tag[d] < noticed'[d]
                                         \/ index[d] < noticed'[d]
             /\ e.tag[d] >= peak'[d] => e.tag[d] >= peak[d]
  <2>1. /\ e.bundle[d] \in Nat /\ e.tag[d] \in Nat /\ e.tag[d] <= now
        /\ noticed[d] \in Nat /\ noticed'[d] \in Nat /\ index[d] \in Nat
        /\ peak[d] \in Nat /\ peak'[d] \in Nat /\ peak'[d] >= peak[d]
    BY <1>5, PartsAre DEF Entry, Clock, Edited
  <2>2. noticed'[d] = noticed[d] \/ noticed'[d] = 0 \/ noticed'[d] = now'
    BY DEF Edited
  <2> QED
    BY <1>1, <2>1, <2>2
<1>6. ASSUME NEW q \in Requests, NEW e, KeptOK(q, e) PROVE KeptOK(q, e)'
  <2>1. Due(q) \subseteq Dated
    BY PartsAre
  <2> QED
    BY <1>4, <1>5, <1>6, <2>1 DEF KeptOK
<1>7. ASSUME NEW q \in Requests, NEW e, RowOK(q, e) PROVE RowOK(q, e)'
  <2>1. Due(q) \subseteq Dated /\ index' = index
    BY PartsAre DEF Edited
  <2>2. CASE e = None
    BY <2>2 DEF RowOK
  <2>3. CASE e # None
    <3>1. /\ Entry(e)
          /\ \A d \in Due(q) : e.bundle[d] >= noticed[d] \/ e.tag[d] < noticed[d] \/ index[d] < noticed[d]
          /\ Newest(q, e) => \A p \in Shown(q) \ {"sync"} : e.bundle[p] = index[p]
      BY <1>7, <2>3 DEF RowOK
    <3>2. Newest(q, e)' => Newest(q, e)
      BY <3>1, <1>5, <2>3 DEF Newest
    <3>3. \A d \in Due(q) : \/ e.bundle[d] >= noticed'[d] \/ e.tag[d] < noticed'[d]
                            \/ index[d] < noticed'[d]
      BY <3>1, <1>5, <2>1
    <3> QED
      BY <3>1, <3>2, <3>3, <1>4, <2>1 DEF RowOK
  <2> QED
    BY <2>2, <2>3
<1>8. CachesOK'
  <2>1. l1' = l1 /\ l2' = l2
    BY DEF Edited
  <2>2. ASSUME NEW s \in Servers, NEW q \in Requests PROVE KeptOK(q, l1[s][q])'
    <3>1. PICK e : e = l1[s][q]
      OBVIOUS
    <3>2. KeptOK(q, e)'
      BY <3>1, <1>6 DEF CachesOK
    <3> QED
      BY <2>1, <3>1, <3>2 DEF KeptOK, Entry
  <2>3. ASSUME NEW q \in Requests PROVE RowOK(q, l2[q])'
    <3>1. PICK e : e = l2[q]
      OBVIOUS
    <3>2. RowOK(q, e)'
      BY <3>1, <1>7 DEF CachesOK
    <3> QED
      BY <2>1, <3>1, <3>2 DEF RowOK, Entry, Newest
  <2> QED
    BY <2>1, <2>2, <2>3 DEF CachesOK
<1>9. Alone' /\ DOMAIN work' = Procs
  BY DEF Alone, Edited, Idle
<1>10. ASSUME NEW p \in Procs PROVE WorkOK(p)'
  <2>1. WorkOK(p) /\ work' = work /\ index' = index /\ fileIdx' = fileIdx /\ l2' = l2
    BY DEF Edited
  <2>2. Shaped(p)' /\ Tagged(p)' /\ Acceptable(p)' /\ Built(p)'
    BY <1>1, <2>1 DEF WorkOK, Shaped, Tagged, Acceptable, Built, Bundle, Idle
  <2>3. ASSUME work[p].pc \in {"index", "stamp", "dispatch"}, NEW d \in Dated
        PROVE  noticed'[d] \in Nat /\ noticed'[d] <= noticed[d]
    BY <2>3 DEF Edited, Unsettled, Clock
  <2>4. Scanned(p)'
    <3> SUFFICES ASSUME work[p].pc \in {"index", "stamp"}
                 PROVE  /\ work[p].seen \in [OnDisk -> Nat] /\ \A i \in OnDisk : work[p].seen[i] <= now'
                        /\ \A d \in Dated : \/ index[d] >= noticed'[d]
                                            \/ work[p].pc = "index" /\ work[p].seen[d] # fileIdx[d]
      BY <2>1 DEF Scanned
    <3>1. /\ work[p].seen \in [OnDisk -> Nat] /\ \A i \in OnDisk : work[p].seen[i] <= now
          /\ \A d \in Dated : \/ index[d] >= noticed[d]
                              \/ work[p].pc = "index" /\ work[p].seen[d] # fileIdx[d]
      BY <2>1 DEF WorkOK, Scanned
    <3>2. \A d \in Dated : noticed[d] \in Nat /\ index[d] \in Nat
      BY PartsAre DEF Clock
    <3> QED
      BY <1>1, <2>3, <3>1, <3>2
  <2>5. UpToDate(p)'
    <3> SUFFICES ASSUME work[p].pc = "dispatch", NEW d \in Dated PROVE index[d] >= noticed'[d]
      BY <2>1 DEF UpToDate
    <3>1. noticed[d] \in Nat /\ index[d] \in Nat /\ index[d] >= noticed[d]
      BY <2>1, PartsAre DEF Clock, WorkOK, UpToDate
    <3> QED
      BY <2>3, <3>1
  <2>6. Requested(p)'
    <3> SUFFICES ASSUME p \in Servers, work[p].pc \in Caching
                 PROVE  /\ work[p].asked \in [Dated -> Nat]
                        /\ \A d \in Due(work[p].req) :
                             /\ index[d] >= work[p].asked[d]
                             /\ noticed'[d] <= work[p].asked[d] \/ work[p].tag[d] < noticed'[d]
      BY <2>1 DEF Requested
    <3>1. /\ work[p].req \in Requests /\ work[p].tag \in [Dated -> Nat] /\ \A d \in Dated : work[p].tag[d] <= now
          /\ work[p].asked \in [Dated -> Nat]
          /\ \A d \in Due(work[p].req) :
               /\ index[d] >= work[p].asked[d]
               /\ noticed[d] <= work[p].asked[d] \/ work[p].tag[d] < noticed[d]
      BY <2>1 DEF WorkOK, Shaped, Tagged, Requested
    <3>2. ASSUME NEW d \in Due(work[p].req)
          PROVE  noticed'[d] <= work[p].asked[d] \/ work[p].tag[d] < noticed'[d]
      <4>1. d \in Dated
        BY <3>1, PartsAre
      <4>2. /\ noticed'[d] \in Nat /\ noticed[d] \in Nat /\ work[p].tag[d] \in Nat /\ work[p].asked[d] \in Nat
            /\ work[p].tag[d] <= now
        BY <3>1, <4>1 DEF Edited, Clock
      <4>3. noticed'[d] = noticed[d] \/ noticed'[d] = 0 \/ noticed'[d] = now'
        BY <4>1 DEF Edited
      <4> QED
        BY <1>1, <3>1, <4>2, <4>3
    <3> QED
      BY <3>1, <3>2
  <2> QED
    BY <2>2, <2>4, <2>5, <2>6 DEF WorkOK
<1>11. DOMAIN answer' = Servers /\ ServedIsFresh'
  BY NoAnswerIsFine DEF Edited
<1> QED
  BY <1>2, <1>3, <1>8, <1>9, <1>10, <1>11

-----------------------------------------------------------------------------
(* Steps that leave the files alone.                                       *)

\* Entries that are kept, dropped, or right when they are put.
LEMMA EntriesStay ==
  ASSUME CachesOK, UNCHANGED <<now, noticed, peak, index>>,
         DOMAIN l1' = Servers, DOMAIN l2' = Requests,
         \A s \in Servers : DOMAIN l1'[s] = Requests,
         \A s \in Servers, q \in Requests :
           l1'[s][q] = l1[s][q] \/ l1'[s][q] = None \/ KeptOK(q, l1'[s][q]),
         \A q \in Requests : l2'[q] = l2[q] \/ l2'[q] = None \/ RowOK(q, l2'[q])
  PROVE  CachesOK'
<1>1. ASSUME NEW s \in Servers, NEW q \in Requests PROVE KeptOK(q, l1[s][q])'
  <2>1. KeptOK(q, l1[s][q])
    BY DEF CachesOK
  <2>2. KeptOK(q, l1'[s][q])
    BY <2>1 DEF KeptOK
  <2> QED
    BY <2>2 DEF KeptOK, Entry
<1>2. ASSUME NEW q \in Requests PROVE RowOK(q, l2[q])'
  <2>1. RowOK(q, l2[q])
    BY DEF CachesOK
  <2>2. RowOK(q, l2'[q])
    BY <2>1 DEF RowOK
  <2> QED
    BY <2>2 DEF RowOK, Entry, Newest
<1> QED
  BY <1>1, <1>2 DEF CachesOK

LEMMA SameFilesAndTables ==
  ASSUME CacheInv, UNCHANGED <<files, tables>>
  PROVE  /\ Clock' /\ IndexTells' /\ UNCHANGED <<now, noticed, peak, index, fileIdx, lastReindex>>
         /\ UNCHANGED <<disk, mtime>>
  BY DEF CacheInv, files, tables, Clock, IndexTells

LEMMA SameAnswers ==
  ASSUME CacheInv, answer' = answer \/ answer' = NoAnswers
  PROVE  DOMAIN answer' = Servers /\ ServedIsFresh'
<1>1. CASE answer' = answer
  BY <1>1 DEF CacheInv, ServedIsFresh
<1> QED
  BY <1>1, NoAnswerIsFine

LEMMA OnlyWork ==
  ASSUME CacheInv, NEW p \in Procs, work[p] # Idle \/ (~Overlap /\ MayStart(p)),
         DOMAIN work' = Procs, \A o \in Procs : o # p => work'[o] = work[o], WorkOK(p)',
         UNCHANGED <<files, tables, l1, l2>>, answer' = answer \/ answer' = NoAnswers
  PROVE  CacheInv'
<1>1. Clock' /\ IndexTells' /\ UNCHANGED <<now, noticed, peak, index>>
  BY SameFilesAndTables
<1>2. CachesOK'
  BY <1>1, EntriesStay DEF CacheInv, CachesOK
<1>3. Alone' /\ DOMAIN work' = Procs /\ \A o \in Procs : WorkOK(o)'
  BY OneProcess
<1> QED
  BY <1>1, <1>2, <1>3, SameAnswers DEF CacheInv

\* What a process is after it has rested, and after an EXCEPT on its record.
LEMMA Rested ==
  ASSUME CacheInv, NEW p \in Procs, work' = [work EXCEPT ![p] = Idle]
  PROVE  /\ DOMAIN work' = Procs /\ \A o \in Procs : o # p => work'[o] = work[o]
         /\ WorkOK(p)'
<1>1. DOMAIN work' = Procs /\ work'[p] = Idle /\ \A o \in Procs : o # p => work'[o] = work[o]
  BY DEF CacheInv
<1>2. DOMAIN work'[p] = WorkFields /\ work'[p].pc = "idle"
  BY <1>1, IdleIs
<1> QED
  BY <1>1, <1>2 DEF WorkOK, Shaped, Scanned, UpToDate, Tagged, Requested, Acceptable, Built, Stages, Caching

LEMMA AtWork ==
  ASSUME NEW p, work[p].pc # "idle"
  PROVE  work[p] # Idle
  BY IdleIs

LEMMA ReindexAsked ==
  ASSUME CacheInv, ~Overlap, NEW full \in BOOLEAN, CliReindex(full)
  PROVE  CacheInv'
<1> DEFINE w == [Idle EXCEPT !.pc = "scan", !.full = full]
<1>1. /\ MayStart(Cli) /\ work' = [work EXCEPT ![Cli] = w] /\ answer' = NoAnswers
      /\ UNCHANGED <<files, tables, l1, l2>>
  BY DEF CliReindex
<1>2. Cli \in Procs /\ Cli \notin Servers
  BY CacheConstants DEF Procs
<1>3. DOMAIN w = WorkFields /\ w.pc = "scan"
  BY IdleIs DEF WorkFields
<1> HIDE DEF w
<1>4. DOMAIN work' = Procs /\ work'[Cli] = w /\ \A o \in Procs : o # Cli => work'[o] = work[o]
  BY <1>1, <1>2 DEF CacheInv
<1>5. WorkOK(Cli)'
  BY <1>2, <1>3, <1>4 DEF WorkOK, Shaped, Scanned, UpToDate, Tagged, Requested, Acceptable, Built, Stages, Caching
<1> QED
  BY <1>1, <1>2, <1>4, <1>5, OnlyWork

\* A call whose looks find nothing newer than the last reindex goes on: then the tables
\* have every edit that was noticed.
LEMMA CallStarted ==
  ASSUME CacheInv, ~Overlap, NEW s \in Servers, NEW job, NEW q \in Requests, Call(s, job, q)
  PROVE  CacheInv'
<1> DEFINE step == IF IsIndexStale THEN "scan" ELSE "dispatch"
           w == [Idle EXCEPT !.pc = step, !.job = job, !.req = q]
<1>1. /\ MayStart(s) /\ work' = [work EXCEPT ![s] = w] /\ answer' = NoAnswers
      /\ UNCHANGED <<files, tables, l1, l2>>
  BY DEF Call
<1>2. s \in Procs
  BY DEF Procs
<1>3. step \in {"scan", "dispatch"} /\ (step = "dispatch" => ~IsIndexStale)
  OBVIOUS
<1> HIDE DEF step
<1>4. DOMAIN w = WorkFields /\ w.pc = step /\ w.req = q
  BY IdleIs DEF WorkFields
<1> HIDE DEF w
<1>5. DOMAIN work' = Procs /\ work'[s] = w /\ \A o \in Procs : o # s => work'[o] = work[o]
  BY <1>1, <1>2 DEF CacheInv
<1>6. UpToDate(s)'
  <2> SUFFICES ASSUME step = "dispatch", NEW d \in Dated PROVE index[d] >= noticed[d]
    BY <1>1, <1>4, <1>5, SameFilesAndTables DEF UpToDate
  <2>1. ~(mtime[d] > lastReindex)
    BY <1>3 DEF IsIndexStale
  <2>2. mtime[d] \in Nat /\ noticed[d] \in Nat /\ lastReindex \in Nat /\ noticed[d] <= mtime[d]
    BY DEF CacheInv, Clock
  <2> QED
    BY <2>1, <2>2 DEF CacheInv, IndexTells
<1>7. WorkOK(s)'
  BY <1>3, <1>4, <1>5, <1>6 DEF WorkOK, Shaped, Scanned, Tagged, Requested, Acceptable, Built, Stages, Caching
<1> QED
  BY <1>1, <1>2, <1>5, <1>7, OnlyWork

LEMMA TagTyped ==
  ASSUME CacheInv, NEW q \in Requests
  PROVE  /\ Tag(q) \in [Dated -> Nat] /\ \A d \in Dated : Tag(q)[d] <= now
         /\ \A d \in Due(q) : Tag(q)[d] = mtime[d]
<1>1. \A d \in Dated : mtime[d] \in Nat /\ mtime[d] <= now
  BY PartsAre DEF CacheInv, Clock
<1>2. now \in Nat
  BY DEF CacheInv, Clock
<1> QED
  BY <1>1, <1>2 DEF Tag, Due

LEMMA CtxStarted ==
  ASSUME CacheInv, ~Overlap, NEW q \in Requests, Ctx(q)
  PROVE  CacheInv'
<1> DEFINE t == Tag(q)
           w == [Idle EXCEPT !.pc = "l2", !.req = q, !.tag = t]
<1>1. /\ MayStart(Cli) /\ work' = [work EXCEPT ![Cli] = w] /\ answer' = NoAnswers
      /\ UNCHANGED <<files, tables, l1, l2>>
  BY DEF Ctx
<1>2. Cli \in Procs /\ Cli \notin Servers
  BY CacheConstants DEF Procs
<1>3. t \in [Dated -> Nat] /\ \A d \in Dated : t[d] <= now
  BY TagTyped
<1> HIDE DEF t
<1>4. DOMAIN w = WorkFields /\ w.pc = "l2" /\ w.req = q /\ w.tag = t
  BY IdleIs DEF WorkFields
<1> HIDE DEF w
<1>5. DOMAIN work' = Procs /\ work'[Cli] = w /\ \A o \in Procs : o # Cli => work'[o] = work[o]
  BY <1>1, <1>2 DEF CacheInv
<1>6. now' = now
  BY <1>1 DEF files
<1>7. WorkOK(Cli)'
  BY <1>2, <1>3, <1>4, <1>5, <1>6
     DEF WorkOK, Shaped, Scanned, UpToDate, Tagged, Requested, Acceptable, Built, Stages, Caching
<1> QED
  BY <1>1, <1>2, <1>5, <1>7, OnlyWork

-----------------------------------------------------------------------------
(* Reindexes.                                                              *)

\* After a reindex the command line is done and a server goes on with its call, its
\* dictionary emptied.
LEMMA Resumed ==
  ASSUME CacheInv, NEW p \in Procs, work[p].pc \in {"scan", "stamp"}, Resume(p),
         \A d \in Dated : index'[d] >= noticed'[d]
  PROVE  /\ DOMAIN work' = Procs /\ \A o \in Procs : o # p => work'[o] = work[o]
         /\ WorkOK(p)'
         /\ DOMAIN l1' = Servers
         /\ \A s \in Servers : DOMAIN l1'[s] = Requests
         /\ \A s \in Servers, q \in Requests : l1'[s][q] = l1[s][q] \/ l1'[s][q] = None
<1>1. DOMAIN l1 = Servers /\ \A s \in Servers : DOMAIN l1[s] = Requests
  BY DEF CacheInv, CachesOK
<1>2. CASE p = Cli
  <2>1. work' = [work EXCEPT ![p] = Idle] /\ l1' = l1
    BY <1>2 DEF Resume, Finish
  <2> QED
    BY <2>1, <1>1, Rested
<1>3. CASE p # Cli
  <2> DEFINE w == [work[p] EXCEPT !.pc = "dispatch"]
  <2>1. work' = [work EXCEPT ![p] = w] /\ l1' = [l1 EXCEPT ![p] = EmptyCache]
    BY <1>3 DEF Resume, Go
  <2>2. Shaped(p) /\ p \in Servers /\ work[p].pc # "idle"
    BY <1>3 DEF CacheInv, WorkOK, Procs
  <2>3. DOMAIN w = WorkFields /\ w.pc = "dispatch" /\ w.req = work[p].req
    BY <2>2 DEF Shaped, WorkFields
  <2> HIDE DEF w
  <2>4. DOMAIN work' = Procs /\ work'[p] = w /\ \A o \in Procs : o # p => work'[o] = work[o]
    BY <2>1 DEF CacheInv
  <2>5. WorkOK(p)'
    BY <2>2, <2>3, <2>4
       DEF WorkOK, Shaped, Scanned, UpToDate, Tagged, Requested, Acceptable, Built, Stages, Caching
  <2>6. /\ DOMAIN l1' = Servers
        /\ \A s \in Servers : DOMAIN l1'[s] = Requests
        /\ \A s \in Servers, q \in Requests : l1'[s][q] = l1[s][q] \/ l1'[s][q] = None
    BY <1>1, <2>1 DEF EmptyCache
  <2> QED
    BY <2>4, <2>5, <2>6
<1> QED
  BY <1>2, <1>3

\* file_index equal to the disk means that every noticed edit is in the tables.
LEMMA NothingToDo ==
  ASSUME CacheInv, NEW p \in Procs, NothingChanged(p)
  PROVE  CacheInv'
<1>1. /\ work[p].pc = "scan" /\ disk = fileIdx /\ lastReindex' = now /\ Resume(p)
      /\ UNCHANGED <<now, disk, mtime, noticed, peak, index, fileIdx, l2, answer>>
  BY DEF NothingChanged, files
<1>2. \A d \in Dated : index[d] >= noticed[d]
  BY <1>1 DEF CacheInv, IndexTells
<1>3. /\ DOMAIN work' = Procs /\ \A o \in Procs : o # p => work'[o] = work[o]
      /\ WorkOK(p)' /\ DOMAIN l1' = Servers /\ \A s \in Servers : DOMAIN l1'[s] = Requests
      /\ \A s \in Servers, q \in Requests : l1'[s][q] = l1[s][q] \/ l1'[s][q] = None
  BY <1>1, <1>2, Resumed
<1>4. Clock' /\ IndexTells'
  BY <1>1, <1>2 DEF CacheInv, Clock, IndexTells
<1>5. CachesOK'
  BY <1>1, <1>3, EntriesStay DEF CacheInv, CachesOK
<1>6. Alone' /\ \A o \in Procs : WorkOK(o)'
  BY <1>1, <1>3, AtWork, OneProcess
<1> QED
  BY <1>1, <1>3, <1>4, <1>5, <1>6, SameAnswers DEF CacheInv

\* What the scan does not see as changed has no noticed edit that the tables lack.
LEMMA ScanDone ==
  ASSUME CacheInv, NEW p \in Procs, Scan(p)
  PROVE  CacheInv'
<1> DEFINE all == work[p].full \/ disk["graph"] # fileIdx["graph"]
           w == [work[p] EXCEPT !.pc = "index", !.seen = disk, !.full = all]
<1>1. /\ work[p].pc = "scan" /\ work' = [work EXCEPT ![p] = w]
      /\ UNCHANGED <<files, tables, l1, l2, answer>>
  BY DEF Scan
<1>2. Shaped(p)
  BY DEF CacheInv, WorkOK
<1> HIDE DEF all
<1>3. DOMAIN w = WorkFields /\ w.pc = "index" /\ w.seen = disk /\ w.req = work[p].req
  BY <1>2 DEF Shaped, WorkFields
<1> HIDE DEF w
<1>4. DOMAIN work' = Procs /\ work'[p] = w /\ \A o \in Procs : o # p => work'[o] = work[o]
  BY <1>1 DEF CacheInv
<1>5. UNCHANGED <<now, noticed, index, fileIdx>>
  BY <1>1, SameFilesAndTables
<1>6. Scanned(p)'
  BY <1>3, <1>4, <1>5 DEF Scanned, CacheInv, Clock, IndexTells
<1>7. WorkOK(p)'
  BY <1>1, <1>2, <1>3, <1>4, <1>6
     DEF WorkOK, Shaped, UpToDate, Tagged, Requested, Acceptable, Built, Stages, Caching
<1> QED
  BY <1>1, <1>4, <1>7, AtWork, OnlyWork

LEMMA IndexDone ==
  ASSUME CacheInv, NEW p \in Procs, Index(p)
  PROVE  CacheInv'
<1> DEFINE w == [work[p] EXCEPT !.pc = "stamp"]
<1>1. /\ work[p].pc = "index" /\ work' = [work EXCEPT ![p] = w] /\ ReadAgain(p) /\ l2' = EmptyCache
      /\ UNCHANGED <<now, disk, mtime, noticed, peak, fileIdx, lastReindex, l1, answer>>
  BY DEF Index, Go, files
<1>2. Shaped(p) /\ Scanned(p)
  BY DEF CacheInv, WorkOK
<1>3. DOMAIN w = WorkFields /\ w.pc = "stamp" /\ w.seen = work[p].seen /\ w.req = work[p].req
  BY <1>2 DEF Shaped, WorkFields
<1> HIDE DEF w
<1>4. DOMAIN work' = Procs /\ work'[p] = w /\ \A o \in Procs : o # p => work'[o] = work[o]
  BY <1>1 DEF CacheInv
<1>5. /\ \A d \in Dated : index[d] >= noticed[d] \/ work[p].seen[d] # fileIdx[d]
      /\ work[p].seen \in [OnDisk -> Nat] /\ \A i \in OnDisk : work[p].seen[i] <= now
  BY <1>1, <1>2 DEF Scanned
<1>6. /\ now \in Nat /\ disk \in [OnDisk -> Nat] /\ index \in [Parts -> Nat] /\ noticed \in [Dated -> Nat]
      /\ \A d \in Dated : noticed[d] <= disk[d]
  <2>1. \A d \in Dated : mtime[d] \in Nat /\ noticed[d] \in Nat /\ disk[d] \in Nat
    BY PartsAre DEF CacheInv, Clock
  <2> QED
    BY <2>1 DEF CacheInv, Clock
<1>7. index' \in [Parts -> Nat]
  <2>1. \A i \in Parts : i = "sync" \/ i \in OnDisk
    BY DEF Parts
  <2> QED
    BY <1>1, <1>6, <2>1 DEF ReadAgain
<1>8. ASSUME NEW d \in Dated PROVE index'[d] >= noticed[d]
  <2>1. d \in Parts /\ d # "sync"
    BY PartsAre DEF Dated
  <2>2. index'[d] = IF work[p].full \/ work[p].seen[d] # fileIdx[d] THEN disk[d] ELSE index[d]
    BY <1>1, <2>1 DEF ReadAgain
  <2> QED
    BY <1>5, <1>6, <2>2
<1>9. Scanned(p)'
  BY <1>1, <1>3, <1>4, <1>5, <1>8 DEF Scanned
<1>10. WorkOK(p)'
  BY <1>1, <1>2, <1>3, <1>4, <1>9
     DEF WorkOK, Shaped, UpToDate, Tagged, Requested, Acceptable, Built, Stages, Caching
<1>11. Alone' /\ \A o \in Procs : WorkOK(o)'
  BY <1>1, <1>4, <1>10, AtWork, OneProcess
<1>12. Clock' /\ IndexTells'
  BY <1>1, <1>7, <1>8 DEF CacheInv, Clock, IndexTells
<1>13. CachesOK'
  <2>1. \A s \in Servers, q \in Requests : KeptOK(q, l1[s][q])'
    BY <1>1 DEF CacheInv, CachesOK, KeptOK, Entry
  <2>2. DOMAIN l2' = Requests /\ \A q \in Requests : l2'[q] = None
    BY <1>1 DEF EmptyCache
  <2>3. \A q \in Requests : RowOK(q, l2[q])'
    BY <2>2 DEF RowOK
  <2> QED
    BY <1>1, <2>1, <2>2, <2>3 DEF CacheInv, CachesOK
<1> QED
  BY <1>1, <1>4, <1>11, <1>12, <1>13, SameAnswers DEF CacheInv

LEMMA StampDone ==
  ASSUME CacheInv, NEW p \in Procs, Stamp(p)
  PROVE  CacheInv'
<1>1. /\ work[p].pc = "stamp" /\ lastReindex' = now /\ Resume(p)
      /\ fileIdx' = (IF work[p].full THEN disk ELSE work[p].seen)
      /\ UNCHANGED <<now, disk, mtime, noticed, peak, index, l2, answer>>
  BY DEF Stamp, files
<1>2. /\ \A d \in Dated : index[d] >= noticed[d]
      /\ work[p].seen \in [OnDisk -> Nat] /\ \A i \in OnDisk : work[p].seen[i] <= now
  BY <1>1 DEF CacheInv, WorkOK, Scanned
<1>3. /\ DOMAIN work' = Procs /\ \A o \in Procs : o # p => work'[o] = work[o]
      /\ WorkOK(p)' /\ DOMAIN l1' = Servers /\ \A s \in Servers : DOMAIN l1'[s] = Requests
      /\ \A s \in Servers, q \in Requests : l1'[s][q] = l1[s][q] \/ l1'[s][q] = None
  BY <1>1, <1>2, Resumed
<1>4. Clock' /\ IndexTells'
  BY <1>1, <1>2 DEF CacheInv, Clock, IndexTells
<1>5. CachesOK'
  BY <1>1, <1>3, EntriesStay DEF CacheInv, CachesOK
<1>6. Alone' /\ \A o \in Procs : WorkOK(o)'
  BY <1>1, <1>3, AtWork, OneProcess
<1> QED
  BY <1>1, <1>3, <1>4, <1>5, <1>6, SameAnswers DEF CacheInv

-----------------------------------------------------------------------------
(* Calls.                                                                  *)

LEMMA Answered ==
  ASSUME CacheInv, NEW s \in Servers, NEW q, NEW bundle, NEW due,
         answer' = [answer EXCEPT ![s] = [req |-> q, bundle |-> bundle, asked |-> due]],
         \A d \in Due(q) : bundle[d] >= due[d]
  PROVE  DOMAIN answer' = Servers /\ ServedIsFresh'
<1>1. /\ DOMAIN answer' = Servers /\ answer'[s] = [req |-> q, bundle |-> bundle, asked |-> due]
      /\ \A o \in Servers : o # s => answer'[o] = answer[o]
  BY DEF CacheInv
<1>2. ASSUME NEW o \in Servers, answer'[o] # None, NEW d \in Dated \cap Shown(answer'[o].req)
      PROVE  answer'[o].bundle[d] >= answer'[o].asked[d]
  <2>1. CASE o = s
    BY <2>1, <1>1, <1>2 DEF Due
  <2>2. CASE o # s
    BY <2>2, <1>1, <1>2 DEF CacheInv, ServedIsFresh
  <2> QED
    BY <2>1, <2>2
<1> QED
  BY <1>1, <1>2 DEF ServedIsFresh

\* The end of a call: caches and answer are right, the process rests.
LEMMA CallEnds ==
  ASSUME CacheInv, NEW p \in Procs, work[p] # Idle, Finish(p), UNCHANGED <<files, tables>>,
         CachesOK', DOMAIN answer' = Servers, ServedIsFresh'
  PROVE  CacheInv'
<1>1. /\ DOMAIN work' = Procs /\ \A o \in Procs : o # p => work'[o] = work[o]
      /\ WorkOK(p)'
  BY Rested DEF Finish
<1>2. Alone' /\ \A o \in Procs : WorkOK(o)'
  BY <1>1, OneProcess
<1> QED
  BY <1>1, <1>2, SameFilesAndTables DEF CacheInv

LEMMA PutEntry ==
  ASSUME CacheInv, NEW s \in Servers, NEW q \in Requests, NEW bundle, NEW tag,
         UNCHANGED <<files, tables>>, l1' = [l1 EXCEPT ![s] = Put(@, q, bundle, tag)],
         KeptOK(q, [bundle |-> bundle, tag |-> tag]),
         DOMAIN l2' = Requests,
         \A r \in Requests : l2'[r] = l2[r] \/ l2'[r] = None \/ RowOK(r, l2'[r])
  PROVE  CachesOK'
<1>1. DOMAIN l1 = Servers /\ \A o \in Servers : DOMAIN l1[o] = Requests
  BY DEF CacheInv, CachesOK
<1>2. /\ DOMAIN l1' = Servers /\ \A o \in Servers : DOMAIN l1'[o] = Requests
      /\ \A o \in Servers, r \in Requests :
           l1'[o][r] = l1[o][r] \/ (r = q /\ l1'[o][r] = [bundle |-> bundle, tag |-> tag])
  BY <1>1 DEF Put
<1>3. \A o \in Servers, r \in Requests : l1'[o][r] = l1[o][r] \/ KeptOK(r, l1'[o][r])
  BY <1>2
<1> QED
  BY <1>2, <1>3, EntriesStay, SameFilesAndTables DEF CacheInv

LEMMA L1Hit ==
  ASSUME CacheInv, NEW s \in Servers, HitL1(s)
  PROVE  CacheInv'
<1> DEFINE q == work[s].req
           e == l1[s][q]
<1>1. /\ work[s].pc = "dispatch" /\ Fresh(e, Tag(q)) /\ Finish(s)
      /\ answer' = [answer EXCEPT ![s] = [req |-> q, bundle |-> e.bundle, asked |-> noticed]]
      /\ UNCHANGED <<files, tables, l1, l2>>
  BY DEF HitL1, Lookup, Answer
<1>2. s \in Procs /\ q \in Requests
  BY <1>1 DEF CacheInv, WorkOK, Shaped, Procs
<1>3. KeptOK(q, e)
  BY <1>2 DEF CacheInv, CachesOK
<1>4. ASSUME NEW d \in Due(q) PROVE e.bundle[d] >= noticed[d]
  <2>1. d \in Dated /\ e # None /\ e.tag[d] >= mtime[d]
    BY <1>1, <1>2, TagTyped, PartsAre DEF Fresh
  <2>2. /\ e.tag[d] \in Nat /\ mtime[d] \in Nat /\ noticed[d] \in Nat /\ noticed[d] <= mtime[d]
        /\ e.bundle[d] >= noticed[d] \/ e.tag[d] < noticed[d]
    BY <1>3, <2>1 DEF KeptOK, Entry, CacheInv, Clock
  <2> QED
    BY <2>1, <2>2
<1>5. CachesOK'
  BY <1>1, EntriesStay, SameFilesAndTables DEF CacheInv, CachesOK
<1>6. DOMAIN answer' = Servers /\ ServedIsFresh'
  <2> HIDE DEF q, e
  <2> QED
    BY <1>1, <1>4, Answered
<1>7. work[s] # Idle
  BY <1>1, AtWork
<1> QED
  BY <1>1, <1>2, <1>5, <1>6, <1>7, CallEnds

\* The look at the mtimes: a row that is as new as the tag has all that was noticed.
LEMMA L1Missed ==
  ASSUME CacheInv, NEW s \in Servers, MissL1(s)
  PROVE  CacheInv'
<1> DEFINE q == work[s].req
           t == Tag(q)
           w == [work[s] EXCEPT !.pc = "l2", !.tag = t, !.asked = noticed]
<1>1. /\ work[s].pc = "dispatch" /\ l1' = [l1 EXCEPT ![s][q] = None]
      /\ work' = [work EXCEPT ![s] = w]
      /\ UNCHANGED <<files, tables, l2, answer>>
  BY DEF MissL1, Lookup
<1>2. s \in Procs /\ q \in Requests /\ Shaped(s) /\ UpToDate(s)
  BY <1>1 DEF CacheInv, WorkOK, Shaped, Procs
<1>3. /\ t \in [Dated -> Nat] /\ \A d \in Dated : t[d] <= now
      /\ \A d \in Due(q) : t[d] = mtime[d]
  BY <1>2, TagTyped
<1> HIDE DEF t
<1>4. DOMAIN w = WorkFields /\ w.pc = "l2" /\ w.req = q /\ w.tag = t /\ w.asked = noticed
  BY <1>2 DEF Shaped, WorkFields
<1> HIDE DEF w, q
<1>5. DOMAIN work' = Procs /\ work'[s] = w /\ \A o \in Procs : o # s => work'[o] = work[o]
  BY <1>1, <1>2 DEF CacheInv
<1>6. UNCHANGED <<now, noticed, index, l2, mtime>>
  BY <1>1, SameFilesAndTables
<1>7. /\ Due(q) \subseteq Dated /\ noticed \in [Dated -> Nat] /\ mtime \in [Dated -> Nat]
      /\ \A d \in Dated : index[d] \in Nat /\ noticed[d] <= mtime[d] /\ index[d] >= noticed[d]
  BY <1>1, <1>2, PartsAre DEF CacheInv, Clock, UpToDate
<1>8. Requested(s)'
  BY <1>4, <1>5, <1>6, <1>7 DEF Requested
<1>9. Acceptable(s)'
  <2> SUFFICES ASSUME l2[q] # None, NEW d \in Due(q), l2[q].tag[d] >= t[d]
               PROVE  l2[q].bundle[d] >= noticed[d]
    BY <1>4, <1>5, <1>6 DEF Acceptable
  <2>1. RowOK(q, l2[q])
    BY <1>2 DEF CacheInv, CachesOK
  <2>2. /\ l2[q].tag[d] \in Nat /\ index[d] \in Nat /\ mtime[d] \in Nat /\ noticed[d] \in Nat
        /\ l2[q].bundle[d] >= noticed[d] \/ l2[q].tag[d] < noticed[d] \/ index[d] < noticed[d]
    BY <2>1, <1>7 DEF RowOK, Entry
  <2> QED
    BY <2>2, <1>3, <1>7
<1>10. WorkOK(s)'
  BY <1>2, <1>3, <1>4, <1>5, <1>6, <1>8, <1>9
     DEF WorkOK, Shaped, Scanned, UpToDate, Tagged, Built, Stages, Caching
<1>11. Alone' /\ \A o \in Procs : WorkOK(o)'
  BY <1>1, <1>2, <1>5, <1>10, AtWork, OneProcess
<1>12. /\ DOMAIN l1' = Servers /\ DOMAIN l2' = Requests /\ \A o \in Servers : DOMAIN l1'[o] = Requests
       /\ \A o \in Servers, r \in Requests : l1'[o][r] = l1[o][r] \/ l1'[o][r] = None
  BY <1>1, <1>2 DEF CacheInv, CachesOK
<1>13. CachesOK'
  BY <1>1, <1>12, EntriesStay, SameFilesAndTables DEF CacheInv
<1> QED
  BY <1>1, <1>5, <1>11, <1>13, SameAnswers, SameFilesAndTables DEF CacheInv

LEMMA L2Hit ==
  ASSUME CacheInv, NEW s \in Servers, HitL2(s)
  PROVE  CacheInv'
<1> DEFINE q == work[s].req
           row == l2[q]
           t == work[s].tag
<1>1. /\ work[s].pc = "l2" /\ Fresh(row, t) /\ Finish(s)
      /\ l1' = [l1 EXCEPT ![s] = Put(@, q, row.bundle, t)]
      /\ answer' = [answer EXCEPT ![s] = [req |-> q, bundle |-> row.bundle, asked |-> work[s].asked]]
      /\ UNCHANGED <<files, tables, l2>>
  BY DEF HitL2, Answer
<1>2. WorkOK(s) /\ s \in Procs
  BY DEF CacheInv, Procs
<1>3. q \in Requests /\ Due(q) \subseteq Dated
  BY <1>1, <1>2, PartsAre DEF WorkOK, Shaped
<1>4. RowOK(q, row) /\ row # None
  BY <1>1, <1>3 DEF CacheInv, CachesOK, Fresh
<1>5. t \in [Dated -> Nat] /\ \A d \in Dated : t[d] <= now
  BY <1>1, <1>2 DEF WorkOK, Tagged, Caching
<1>6. ASSUME NEW d \in Due(q)
      PROVE  /\ row.bundle[d] >= work[s].asked[d]
             /\ noticed[d] <= work[s].asked[d] \/ t[d] < noticed[d]
             /\ work[s].asked[d] \in Nat
  BY <1>1, <1>2, <1>3, <1>4 DEF WorkOK, Acceptable, Requested, Caching, Fresh
<1>7. row.bundle \in [Parts -> Nat]
  BY <1>4 DEF RowOK, Entry
<1>8. \A d \in Due(q) : row.bundle[d] >= noticed[d] \/ t[d] < noticed[d]
  <2> TAKE d \in Due(q)
  <2>1. d \in Parts /\ d \in Dated /\ noticed[d] \in Nat
    BY <1>3, PartsAre DEF CacheInv, Clock
  <2> QED
    BY <2>1, <1>5, <1>6, <1>7
<1> DEFINE b == row.bundle
<1>9. KeptOK(q, [bundle |-> b, tag |-> t])
  BY <1>5, <1>7, <1>8 DEF KeptOK, Entry
<1>10. CachesOK'
  <2>1. DOMAIN l2' = Requests /\ \A r \in Requests : l2'[r] = l2[r]
    BY <1>1 DEF CacheInv, CachesOK
  <2> HIDE DEF q, row, t
  <2> QED
    BY <2>1, <1>1, <1>3, <1>9, PutEntry
<1>11. DOMAIN answer' = Servers /\ ServedIsFresh'
  <2> HIDE DEF q, row
  <2> QED
    BY <1>1, <1>6, Answered
<1>12. work[s] # Idle
  BY <1>1, AtWork
<1> QED
  BY <1>1, <1>2, <1>10, <1>11, <1>12, CallEnds

LEMMA L2Missed ==
  ASSUME CacheInv, NEW p \in Procs, MissL2(p)
  PROVE  CacheInv'
<1> DEFINE q == work[p].req
           w == [work[p] EXCEPT !.pc = "build"]
<1>1. /\ work[p].pc = "l2" /\ l2' = [l2 EXCEPT ![q] = None] /\ work' = [work EXCEPT ![p] = w]
      /\ UNCHANGED <<files, tables, l1, answer>>
  BY DEF MissL2, Go
<1>2. WorkOK(p)
  BY DEF CacheInv
<1>3. DOMAIN w = WorkFields /\ w.pc = "build" /\ w.req = q /\ w.tag = work[p].tag /\ w.asked = work[p].asked
  BY <1>2 DEF WorkOK, Shaped, WorkFields
<1> HIDE DEF w
<1>4. DOMAIN work' = Procs /\ work'[p] = w /\ \A o \in Procs : o # p => work'[o] = work[o]
  BY <1>1 DEF CacheInv
<1>5. UNCHANGED <<now, noticed, index>>
  BY <1>1, SameFilesAndTables
<1>6. WorkOK(p)'
  BY <1>1, <1>2, <1>3, <1>4, <1>5
     DEF WorkOK, Shaped, Scanned, UpToDate, Tagged, Requested, Acceptable, Built, Stages, Caching
<1>7. Alone' /\ \A o \in Procs : WorkOK(o)'
  BY <1>1, <1>4, <1>6, AtWork, OneProcess
<1>8. CachesOK'
  <2>1. DOMAIN l2' = Requests /\ \A r \in Requests : l2'[r] = l2[r] \/ l2'[r] = None
    BY <1>1 DEF CacheInv, CachesOK
  <2> QED
    BY <2>1, <1>1, EntriesStay, SameFilesAndTables DEF CacheInv, CachesOK
<1> QED
  BY <1>1, <1>4, <1>7, <1>8, SameAnswers, SameFilesAndTables DEF CacheInv

LEMMA BundleBuilt ==
  ASSUME CacheInv, NEW p \in Procs, Build(p)
  PROVE  CacheInv'
<1> DEFINE b == Bundle(work[p].req)
           w == [work[p] EXCEPT !.pc = "store", !.bundle = b]
<1>1. /\ work[p].pc = "build" /\ work' = [work EXCEPT ![p] = w]
      /\ UNCHANGED <<files, tables, l1, l2, answer>>
  BY DEF Build
<1>2. WorkOK(p)
  BY DEF CacheInv
<1> HIDE DEF b
<1>3. /\ DOMAIN w = WorkFields /\ w.pc = "store" /\ w.req = work[p].req /\ w.tag = work[p].tag
      /\ w.asked = work[p].asked /\ w.bundle = b
  BY <1>2 DEF WorkOK, Shaped, WorkFields
<1> HIDE DEF w
<1>4. DOMAIN work' = Procs /\ work'[p] = w /\ \A o \in Procs : o # p => work'[o] = work[o]
  BY <1>1 DEF CacheInv
<1>5. UNCHANGED <<now, noticed, index>>
  BY <1>1, SameFilesAndTables
<1>6. Built(p)'
  BY <1>3, <1>4, <1>5 DEF Built, b, Bundle
<1>7. WorkOK(p)'
  BY <1>1, <1>2, <1>3, <1>4, <1>5, <1>6
     DEF WorkOK, Shaped, Scanned, UpToDate, Tagged, Requested, Acceptable, Stages, Caching
<1> QED
  BY <1>1, <1>4, <1>7, AtWork, OnlyWork


\* What is stored was built from the tables as they are, by whoever built it.
LEMMA StoredRow ==
  ASSUME CacheInv, NEW p \in Procs, work[p].pc = "store"
  PROVE  RowOK(work[p].req, [bundle |-> work[p].bundle, tag |-> work[p].tag])
<1> DEFINE q == work[p].req
           b == work[p].bundle
           t == work[p].tag
<1>1. q \in Requests /\ b = Bundle(q) /\ t \in [Dated -> Nat] /\ \A d \in Dated : t[d] <= now
  BY DEF CacheInv, WorkOK, Shaped, Built, Tagged, Caching
<1>2. index \in [Parts -> Nat] /\ noticed \in [Dated -> Nat]
  BY DEF CacheInv, Clock
<1>3. Due(q) \subseteq Dated /\ Due(q) \subseteq Shown(q) /\ Shown(q) \subseteq Parts
  BY <1>1, PartsAre DEF Due
<1> HIDE DEF q, b, t
<1>4. b \in [Parts -> Nat] /\ \A i \in Shown(q) : b[i] = index[i]
  BY <1>1, <1>2, <1>3 DEF Bundle
<1>5. \A d \in Due(q) : b[d] >= noticed[d] \/ index[d] < noticed[d]
  <2> TAKE d \in Due(q)
  <2>1. d \in Dated /\ d \in Parts /\ b[d] = index[d]
    BY <1>3, <1>4
  <2>2. index[d] \in Nat /\ noticed[d] \in Nat
    BY <2>1, <1>2
  <2> QED
    BY <2>1, <2>2
<1>6. RowOK(q, [bundle |-> b, tag |-> t])
  BY <1>1, <1>4, <1>5 DEF RowOK, Entry
<1> QED
  BY <1>6 DEF q, b, t

LEMMA PutRow ==
  ASSUME CacheInv, NEW q \in Requests, NEW bundle, NEW tag, l2' = Put(l2, q, bundle, tag),
         RowOK(q, [bundle |-> bundle, tag |-> tag])
  PROVE  /\ DOMAIN l2' = Requests
         /\ \A r \in Requests : l2'[r] = l2[r] \/ RowOK(r, l2'[r])
<1>1. /\ DOMAIN l2' = Requests
      /\ \A r \in Requests : l2'[r] = l2[r] \/ (r = q /\ l2'[r] = [bundle |-> bundle, tag |-> tag])
  BY DEF CacheInv, CachesOK, Put
<1> QED
  BY <1>1

LEMMA BundleStored ==
  ASSUME CacheInv, NEW s \in Servers, Store(s)
  PROVE  CacheInv'
<1> DEFINE q == work[s].req
           b == work[s].bundle
           t == work[s].tag
           k == work[s].asked
<1>1. /\ work[s].pc = "store" /\ Finish(s)
      /\ l1' = [l1 EXCEPT ![s] = Put(@, q, b, t)] /\ l2' = Put(l2, q, b, t)
      /\ answer' = [answer EXCEPT ![s] = [req |-> q, bundle |-> b, asked |-> k]]
      /\ UNCHANGED <<files, tables>>
  BY DEF Store, Answer
<1>2. s \in Procs /\ WorkOK(s)
  BY DEF CacheInv, Procs
<1>3. q \in Requests /\ Due(q) \subseteq Dated /\ Due(q) \subseteq Shown(q) /\ Shown(q) \subseteq Parts
  BY <1>1, <1>2, PartsAre DEF WorkOK, Shaped, Due
<1>4. RowOK(q, [bundle |-> b, tag |-> t])
  BY <1>1, <1>2, StoredRow
<1>5. /\ k \in [Dated -> Nat] /\ b = Bundle(q)
      /\ \A d \in Due(q) : index[d] >= k[d] /\ (noticed[d] <= k[d] \/ t[d] < noticed[d])
  BY <1>1, <1>2 DEF WorkOK, Requested, Built, Caching
<1>6. index \in [Parts -> Nat] /\ noticed \in [Dated -> Nat] /\ work[s] # Idle
  BY <1>1, AtWork DEF CacheInv, Clock
<1> HIDE DEF q, b, t, k
<1>7. \A d \in Due(q) : b[d] = index[d] /\ index[d] \in Nat /\ noticed[d] \in Nat /\ k[d] \in Nat
  BY <1>3, <1>5, <1>6 DEF Bundle
<1>8. \A d \in Due(q) : b[d] >= k[d] /\ (b[d] >= noticed[d] \/ t[d] < noticed[d])
  BY <1>5, <1>7
<1>9. KeptOK(q, [bundle |-> b, tag |-> t])
  <2>1. Entry([bundle |-> b, tag |-> t]) \/ [bundle |-> b, tag |-> t] = None
    BY <1>4 DEF RowOK
  <2> QED
    BY <2>1, <1>8 DEF KeptOK
<1>10. CachesOK'
  <2>1. DOMAIN l2' = Requests /\ \A r \in Requests : l2'[r] = l2[r] \/ RowOK(r, l2'[r])
    BY <1>1, <1>3, <1>4, PutRow
  <2> QED
    BY <2>1, <1>1, <1>3, <1>9, PutEntry
<1>11. DOMAIN answer' = Servers /\ ServedIsFresh'
  BY <1>1, <1>8, Answered
<1> QED
  BY <1>1, <1>2, <1>6, <1>10, <1>11, CallEnds

LEMMA CtxEnds ==
  ASSUME CacheInv, HitCtx \/ StoreCtx
  PROVE  CacheInv'
<1> DEFINE q == work[Cli].req
           b == work[Cli].bundle
           t == work[Cli].tag
<1>1. /\ work[Cli].pc \in Caching /\ Finish(Cli) /\ UNCHANGED <<files, tables, l1, answer>>
      /\ l2' = l2 \/ (work[Cli].pc = "store" /\ l2' = Put(l2, q, b, t))
  BY DEF HitCtx, StoreCtx, Caching
<1>2. Cli \in Procs /\ WorkOK(Cli) /\ work[Cli] # Idle
  BY <1>1, AtWork DEF CacheInv, Procs, Caching
<1>3. q \in Requests
  BY <1>1, <1>2 DEF WorkOK, Shaped
<1>4. work[Cli].pc = "store" => RowOK(q, [bundle |-> b, tag |-> t])
  BY <1>2, StoredRow
<1> HIDE DEF q, b, t
<1>5. DOMAIN l2' = Requests /\ \A r \in Requests : l2'[r] = l2[r] \/ RowOK(r, l2'[r])
  BY <1>1, <1>3, <1>4, PutRow DEF CacheInv, CachesOK
<1>6. CachesOK'
  BY <1>1, <1>5, EntriesStay, SameFilesAndTables DEF CacheInv, CachesOK
<1> QED
  BY <1>1, <1>2, <1>6, CallEnds, SameAnswers

LEMMA ServerRestarts ==
  ASSUME CacheInv, ~Overlap, NEW s \in Servers, Restart(s)
  PROVE  CacheInv'
<1>1. /\ l1' = [l1 EXCEPT ![s] = EmptyCache] /\ work' = [work EXCEPT ![s] = Idle]
      /\ answer' = NoAnswers /\ UNCHANGED <<files, tables, l2>>
  BY DEF Restart, Finish
<1>2. /\ s \in Procs /\ DOMAIN work' = Procs /\ WorkOK(s)' /\ work'[s] = Idle
      /\ \A o \in Procs : o # s => work'[o] = work[o]
  BY <1>1, Rested DEF Procs, CacheInv
<1>3. /\ DOMAIN l1' = Servers /\ DOMAIN l2' = Requests /\ \A o \in Servers : DOMAIN l1'[o] = Requests
      /\ \A o \in Servers, r \in Requests : l1'[o][r] = l1[o][r] \/ l1'[o][r] = None
  BY <1>1 DEF CacheInv, CachesOK, EmptyCache
<1>4. CachesOK'
  BY <1>1, <1>3, EntriesStay, SameFilesAndTables DEF CacheInv
<1>5. Alone'
  BY <1>2 DEF CacheInv, Alone
<1>6. UNCHANGED <<now, noticed, index, fileIdx>>
  BY <1>1, SameFilesAndTables
<1>7. ASSUME NEW o \in Procs PROVE WorkOK(o)'
  <2>1. CASE o = s
    BY <2>1, <1>2
  <2>2. CASE o # s
    BY <2>2, <1>1, <1>2, <1>6
       DEF CacheInv, WorkOK, Shaped, Scanned, UpToDate, Tagged, Requested, Acceptable, Built, Bundle, Idle
  <2> QED
    BY <2>1, <2>2
<1> QED
  BY <1>1, <1>2, <1>4, <1>5, <1>7, SameAnswers, SameFilesAndTables DEF CacheInv

-----------------------------------------------------------------------------
(* Calls that write.                                                       *)

\* update_node is an edit that is noticed, and in the tables only if they were right; its
\* time is later than every tag.
LEMMA NodeUpdated ==
  ASSUME CacheInv, NEW s \in Servers, UpdateNode(s)
  PROVE  CacheInv'
<1> DEFINE ref == work[s].req.ref
<1>1. /\ work[s].pc = "dispatch" /\ now' = now + 1
      /\ disk' = [disk EXCEPT !["graph"] = now'] /\ mtime' = [mtime EXCEPT !["graph"] = now']
      /\ noticed' = [noticed EXCEPT !["graph"] = now'] /\ peak' = [peak EXCEPT !["graph"] = now']
      /\ index' = [index EXCEPT !["graph"] = IF @ = disk["graph"] THEN now' ELSE @]
      /\ work' = [work EXCEPT ![s] = Idle] /\ UNCHANGED <<fileIdx, lastReindex, answer>>
  BY DEF UpdateNode, Finish
<1>2. /\ l1' = [l1 EXCEPT ![s] = [q \in Requests |->
                  IF q.ref = ref /\ q.tool = "get_context" THEN None ELSE l1[s][q]]]
      /\ l2' = [q \in Requests |-> IF q.ref = ref THEN None ELSE l2[q]]
  BY DEF UpdateNode
<1>3. "graph" \in Dated /\ "graph" \in OnDisk /\ "graph" \in Parts
  BY PartsAre DEF Dated
<1>4. Clock
  BY DEF CacheInv
<1>5. /\ now \in Nat /\ now' \in Nat /\ now' > now /\ lastReindex \in Nat /\ lastReindex <= now
      /\ disk \in [OnDisk -> Nat] /\ fileIdx \in [OnDisk -> Nat] /\ index \in [Parts -> Nat]
      /\ mtime \in [Dated -> Nat] /\ noticed \in [Dated -> Nat] /\ peak \in [Dated -> Nat]
      /\ \A i \in OnDisk : disk[i] <= now /\ fileIdx[i] <= now
      /\ \A d \in Dated : noticed[d] <= mtime[d] /\ mtime[d] <= disk[d] /\ peak[d] <= now
  BY <1>1, <1>4 DEF Clock
<1>6. /\ index' \in [Parts -> Nat] /\ \A i \in Parts : i # "graph" => index'[i] = index[i]
      /\ disk'["graph"] = now' /\ noticed'["graph"] = now' /\ mtime'["graph"] = now'
      /\ peak'["graph"] = now'
      /\ \A i \in OnDisk : i # "graph" => disk'[i] = disk[i]
      /\ \A d \in Dated : d # "graph" => noticed'[d] = noticed[d] /\ mtime'[d] = mtime[d] /\ peak'[d] = peak[d]
  BY <1>1, <1>3, <1>5
<1>7. Clock'
  <2>1. \A d \in Dated : noticed'[d] <= mtime'[d] /\ mtime'[d] <= disk'[d] /\ peak'[d] <= now'
    BY <1>5, <1>6, PartsAre
  <2>2. \A i \in OnDisk : disk'[i] <= now' /\ fileIdx'[i] <= now'
    BY <1>1, <1>5, <1>6
  <2>3. /\ disk' \in [OnDisk -> Nat] /\ mtime' \in [Dated -> Nat] /\ noticed' \in [Dated -> Nat]
        /\ peak' \in [Dated -> Nat]
    BY <1>1, <1>5
  <2>4. lastReindex' \in Nat /\ lastReindex' <= now' /\ fileIdx' \in [OnDisk -> Nat]
    BY <1>1, <1>5
  <2> QED
    BY <1>5, <1>6, <2>1, <2>2, <2>3, <2>4 DEF Clock
<1>8. IndexTells'
  <2> SUFFICES ASSUME NEW d \in Dated
               PROVE  index'[d] >= noticed'[d] \/ (disk'[d] # fileIdx[d] /\ lastReindex < noticed'[d])
    BY <1>1 DEF IndexTells
  <2>1. CASE d = "graph"
    <3>1. fileIdx[d] \in Nat /\ fileIdx[d] <= now
      BY <1>5, PartsAre
    <3> QED
      BY <2>1, <3>1, <1>5, <1>6
  <2>2. CASE d # "graph"
    <3>1. index'[d] = index[d] /\ noticed'[d] = noticed[d] /\ disk'[d] = disk[d]
      BY <2>2, <1>6, PartsAre
    <3> QED
      BY <3>1 DEF CacheInv, IndexTells
  <2> QED
    BY <2>1, <2>2
<1>9. ASSUME NEW q \in Requests, NEW e, e # None, Entry(e)
      PROVE  Entry(e)' /\ e.tag["graph"] < noticed'["graph"] /\ ~(Newest(q, e)')
  <2>1. e.tag["graph"] \in Nat /\ e.tag["graph"] <= now
    BY <1>3, <1>9 DEF Entry
  <2>2. Entry(e)'
    BY <1>5, <1>9 DEF Entry
  <2>3. "graph" \in Dated \cap Shown(q)
    BY PartsAre DEF Due
  <2>4. ~(e.tag["graph"] >= now')
    BY <1>5, <2>1
  <2> QED
    BY <1>6, <2>1, <2>2, <2>3, <2>4, <1>5 DEF Newest
<1>10. ASSUME NEW q \in Requests, NEW e, KeptOK(q, e) PROVE KeptOK(q, e)'
  <2>1. \A d \in Due(q) : d \in Dated
    BY PartsAre
  <2>2. CASE e # None
    BY <2>1, <2>2, <1>6, <1>9, <1>10 DEF KeptOK
  <2> QED
    BY <2>2 DEF KeptOK
<1>11. ASSUME NEW q \in Requests, NEW e, RowOK(q, e) PROVE RowOK(q, e)'
  <2>1. \A d \in Due(q) : d \in Dated /\ d \in Parts
    BY PartsAre
  <2>2. CASE e # None
    BY <2>1, <2>2, <1>6, <1>9, <1>11 DEF RowOK
  <2> QED
    BY <2>2 DEF RowOK
<1>12. s \in Procs /\ work[s] # Idle
  BY <1>1, AtWork DEF Procs
<1>13. CachesOK'
  <2>1. /\ DOMAIN l1 = Servers /\ \A o \in Servers : DOMAIN l1[o] = Requests
        /\ \A o \in Servers, q \in Requests : KeptOK(q, l1[o][q])
        /\ \A q \in Requests : RowOK(q, l2[q])
    BY DEF CacheInv, CachesOK
  <2>2. /\ DOMAIN l1' = Servers /\ DOMAIN l2' = Requests /\ \A o \in Servers : DOMAIN l1'[o] = Requests
        /\ \A o \in Servers, q \in Requests : l1'[o][q] = l1[o][q] \/ l1'[o][q] = None
        /\ \A q \in Requests : l2'[q] = l2[q] \/ l2'[q] = None
    BY <1>2, <2>1
  <2>3. ASSUME NEW o \in Servers, NEW q \in Requests PROVE KeptOK(q, l1[o][q])'
    <3>1. PICK e : e = l1'[o][q]
      OBVIOUS
    <3>2. KeptOK(q, e)
      BY <3>1, <2>1, <2>2 DEF KeptOK
    <3>3. KeptOK(q, e)'
      BY <3>2, <1>10
    <3> QED
      BY <3>1, <3>3 DEF KeptOK, Entry
  <2>4. ASSUME NEW q \in Requests PROVE RowOK(q, l2[q])'
    <3>1. PICK e : e = l2'[q]
      OBVIOUS
    <3>2. RowOK(q, e)
      BY <3>1, <2>1, <2>2 DEF RowOK
    <3>3. RowOK(q, e)'
      BY <3>2, <1>11
    <3> QED
      BY <3>1, <3>3 DEF RowOK, Entry, Newest
  <2> QED
    BY <2>2, <2>3, <2>4 DEF CachesOK
<1>14. /\ DOMAIN work' = Procs /\ Alone' /\ \A o \in Procs : WorkOK(o)'
  BY <1>1, <1>12, Rested, OneProcess
<1> QED
  BY <1>1, <1>7, <1>8, <1>13, <1>14, SameAnswers DEF CacheInv

\* mark_synced changes what no mtime tells of.
LEMMA SyncedMarked ==
  ASSUME CacheInv, NEW s \in Servers, MarkSynced(s)
  PROVE  CacheInv'
<1>1. /\ work[s].pc = "dispatch" /\ now' = now + 1 /\ index' = [index EXCEPT !["sync"] = now']
      /\ work' = [work EXCEPT ![s] = Idle]
      /\ UNCHANGED <<disk, mtime, noticed, peak, fileIdx, lastReindex, l1, l2, answer>>
  BY DEF MarkSynced, Finish
<1>2. "sync" \in Parts /\ \A d \in Dated : d # "sync"
  BY DEF Parts, Dated
<1>3. /\ now \in Nat /\ now' \in Nat /\ now' > now /\ index' \in [Parts -> Nat]
      /\ \A i \in Parts : i # "sync" => index'[i] = index[i]
  BY <1>1, <1>2 DEF CacheInv, Clock
<1>4. Clock'
  <2>1. \A p \in OnDisk : disk[p] <= now' /\ fileIdx[p] <= now'
    BY <1>1, <1>3 DEF CacheInv, Clock
  <2>2. \A d \in Dated : peak[d] <= now'
    BY <1>1, <1>3 DEF CacheInv, Clock
  <2>3. lastReindex <= now'
    BY <1>1, <1>3 DEF CacheInv, Clock
  <2> QED
    BY <1>1, <1>3, <2>1, <2>2, <2>3 DEF CacheInv, Clock
<1>5. IndexTells'
  BY <1>1, <1>2, <1>3, PartsAre DEF CacheInv, IndexTells
<1>6. ASSUME NEW e, Entry(e) PROVE Entry(e)'
  BY <1>1, <1>3, <1>6 DEF Entry
<1>7. ASSUME NEW q \in Requests, NEW e, KeptOK(q, e) PROVE KeptOK(q, e)'
  BY <1>1, <1>6, <1>7 DEF KeptOK
<1>8. ASSUME NEW q \in Requests, NEW e, RowOK(q, e) PROVE RowOK(q, e)'
  <2>1. /\ \A d \in Due(q) : index'[d] = index[d]
        /\ \A p \in Shown(q) \ {"sync"} : index'[p] = index[p]
        /\ Newest(q, e)' <=> Newest(q, e)
    BY <1>1, <1>2, <1>3, PartsAre DEF Newest
  <2> QED
    BY <1>1, <1>6, <1>8, <2>1 DEF RowOK
<1>9. CachesOK'
  <2>1. ASSUME NEW o \in Servers, NEW q \in Requests PROVE KeptOK(q, l1[o][q])'
    <3>1. PICK e : e = l1[o][q]
      OBVIOUS
    <3>2. KeptOK(q, e)'
      BY <3>1, <1>7 DEF CacheInv, CachesOK
    <3> QED
      BY <1>1, <3>1, <3>2 DEF KeptOK, Entry
  <2>2. ASSUME NEW q \in Requests PROVE RowOK(q, l2[q])'
    <3>1. PICK e : e = l2[q]
      OBVIOUS
    <3>2. RowOK(q, e)'
      BY <3>1, <1>8 DEF CacheInv, CachesOK
    <3> QED
      BY <1>1, <3>1, <3>2 DEF RowOK, Entry, Newest
  <2> QED
    BY <1>1, <2>1, <2>2 DEF CacheInv, CachesOK
<1>10. s \in Procs /\ work[s] # Idle
  BY <1>1, AtWork DEF Procs
<1>11. /\ DOMAIN work' = Procs /\ Alone' /\ \A o \in Procs : WorkOK(o)'
  BY <1>1, <1>10, Rested, OneProcess
<1> QED
  BY <1>1, <1>4, <1>5, <1>9, <1>11, SameAnswers DEF CacheInv

-----------------------------------------------------------------------------
(* The theorems about the caches.                                          *)

LEMMA CacheStart == CacheInit => CacheInv
<1> SUFFICES ASSUME CacheInit PROVE CacheInv
  OBVIOUS
<1>1. /\ now = 0 /\ lastReindex = 0 /\ disk = [p \in OnDisk |-> 0] /\ fileIdx = disk
      /\ mtime = [d \in Dated |-> 0] /\ noticed = mtime /\ peak = mtime
      /\ index = [p \in Parts |-> 0]
  BY DEF CacheInit
<1>2. Clock /\ IndexTells
  BY <1>1, PartsAre DEF Clock, IndexTells
<1>3. DOMAIN work = Procs /\ \A p \in Procs : work[p] = Idle
  BY DEF CacheInit
<1>4. Alone /\ \A p \in Procs : WorkOK(p)
  BY <1>3, RestIsFine DEF Alone
<1>5. CachesOK
  BY DEF CacheInit, CachesOK, EmptyCache, KeptOK, RowOK
<1>6. DOMAIN answer = Servers /\ ServedIsFresh
  BY DEF CacheInit, NoAnswers, ServedIsFresh
<1> QED
  BY <1>2, <1>3, <1>4, <1>5, <1>6 DEF CacheInv

\* When processes take turns the caches are right at every moment of every call: an entry
\* of a dictionary misses an edit only if its tag gives it away, a row only if tables and
\* row are behind together, and then the server that looks reindexes first.
THEOREM CachesAlwaysRight == ~Overlap => (CacheSpec => []CacheInv)
<1> SUFFICES ASSUME ~Overlap PROVE CacheSpec => []CacheInv
  OBVIOUS
<1>1. ASSUME CacheInv, [CacheNext]_cacheVars PROVE CacheInv'
  <2>1. CASE UNCHANGED cacheVars
    BY <1>1, <2>1
       DEF cacheVars, CacheInv, Clock, IndexTells, Alone, CachesOK, KeptOK, RowOK, Entry, Newest, WorkOK,
           Shaped, Scanned, UpToDate, Tagged, Requested, Acceptable, Built, Bundle, Idle, ServedIsFresh
  <2>2. ASSUME NEW p \in OnDisk, Save(p) \/ RemoveFile(p) PROVE CacheInv'
    <3>1. Edited
      BY <1>1, <2>2, SaveEdits, RemoveEdits DEF CacheInv
    <3> QED
      BY <1>1, <3>1, EditsKeepInv
  <2>3. ASSUME NEW full \in BOOLEAN, CliReindex(full) PROVE CacheInv'
    BY <1>1, <2>3, ReindexAsked
  <2>4. ASSUME NEW p \in Procs,
               NothingChanged(p) \/ Scan(p) \/ Index(p) \/ Stamp(p) \/ MissL2(p) \/ Build(p)
        PROVE  CacheInv'
    BY <1>1, <2>4, NothingToDo, ScanDone, IndexDone, StampDone, L2Missed, BundleBuilt
  <2>5. ASSUME NEW s \in Servers, NEW job \in {"get", "update", "mark"}, NEW q \in Requests, Call(s, job, q)
        PROVE  CacheInv'
    BY <1>1, <2>5, CallStarted
  <2>6. ASSUME NEW s \in Servers,
               \/ HitL1(s) \/ MissL1(s) \/ HitL2(s) \/ Store(s)
               \/ UpdateNode(s) \/ MarkSynced(s) \/ Restart(s)
        PROVE  CacheInv'
    BY <1>1, <2>6, L1Hit, L1Missed, L2Hit, BundleStored, NodeUpdated, SyncedMarked, ServerRestarts
  <2>7. ASSUME NEW q \in Requests, Ctx(q) PROVE CacheInv'
    BY <1>1, <2>7, CtxStarted
  <2>8. CASE HitCtx \/ StoreCtx
    BY <1>1, <2>8, CtxEnds
  <2> QED
    BY <1>1, <2>1, <2>2, <2>3, <2>4, <2>5, <2>6, <2>7, <2>8 DEF CacheNext
<1> QED
  BY <1>1, CacheStart, PTL DEF CacheSpec

\* A server's answer, cached or not, shows every edit of graph and docs made before the
\* call that an mtime tells of, for any servers, nodes, requests and edits.
THEOREM ServedAlwaysFresh == ~Overlap => (CacheSpec => []ServedIsFresh)
<1>1. CacheInv => ServedIsFresh
  BY DEF CacheInv
<1> QED
  BY <1>1, CachesAlwaysRight, PTL

\* A row of bundle_cache that no newer mtime has outdated is what would be built now, for
\* any servers, nodes, requests and edits.
THEOREM RowsAlwaysCurrent == ~Overlap => (CacheSpec => []RowsAreCurrent)
<1>1. CacheInv => RowsAreCurrent
  <2> SUFFICES ASSUME CacheInv, NEW q \in Requests, Newest(q, l2[q])
               PROVE  Current(q, l2[q])
    BY DEF RowsAreCurrent
  <2>1. l2[q] # None /\ RowOK(q, l2[q])
    BY DEF CacheInv, CachesOK, Newest
  <2>2. \A p \in Shown(q) \ {"sync"} : l2[q].bundle[p] = index[p] /\ p \in Parts
    BY <2>1, PartsAre DEF RowOK
  <2>3. \A p \in Shown(q) \ {"sync"} : l2[q].bundle[p] = Bundle(q)[p]
    BY <2>2 DEF Bundle
  <2> QED
    BY <2>3 DEF Current, Show
<1> QED
  BY <1>1, CachesAlwaysRight, PTL

-----------------------------------------------------------------------------
(* GraphQL: the comparison of two types of a field.                        *)

\* _satisfies is inclusion of values, both ways: a break that is reported is one,
\* and one that is not reported is none.
LEMMA SatisfiesIsInclusion ==
  ASSUME NEW p \in WrappedTypes, NEW c \in WrappedTypes
  PROVE  Satisfies(p, c) <=> Values(p) \subseteq Values(c)
<1>1. /\ Len(p.nonNull) \in Nat \ {0} /\ DOMAIN p.nonNull = 1..Len(p.nonNull)
      /\ Len(c.nonNull) \in Nat \ {0} /\ DOMAIN c.nonNull = 1..Len(c.nonNull)
      /\ p.leaf \in Leaves /\ c.leaf \in Leaves
  BY DEF WrappedTypes
<1>2. p.leaf \notin {"null", "empty"} /\ c.leaf \notin {"null", "empty"}
  BY <1>1, LeavesAssumption
<1>3. ASSUME Satisfies(p, c) PROVE Values(p) \subseteq Values(c)
  <2>1. Len(p.nonNull) = Len(c.nonNull) /\ p.leaf = c.leaf
    BY <1>3 DEF Satisfies
  <2>2. {k \in DOMAIN p.nonNull : ~ p.nonNull[k]} \subseteq {k \in DOMAIN c.nonNull : ~ c.nonNull[k]}
    BY <1>1, <1>3, <2>1 DEF Satisfies
  <2> QED BY <2>1, <2>2 DEF Values
<1>4. ASSUME Values(p) \subseteq Values(c) PROVE Satisfies(p, c)
  <2>1. [level |-> Len(p.nonNull), is |-> p.leaf] \in Values(c)
    BY <1>4 DEF Values
  <2>2. Len(p.nonNull) = Len(c.nonNull) /\ p.leaf = c.leaf
    BY <1>2, <2>1 DEF Values
  <2>3. ASSUME NEW l \in DOMAIN c.nonNull, c.nonNull[l], ~ p.nonNull[l] PROVE FALSE
    <3>1. [level |-> l, is |-> "null"] \in Values(p)
      BY <1>1, <2>2, <2>3 DEF Values
    <3>2. [level |-> l, is |-> "null"] \in Values(c)
      BY <1>4, <3>1
    <3> QED BY <1>2, <2>3, <3>2 DEF Values
  <2> QED BY <2>2, <2>3 DEF Satisfies
<1> QED BY <1>3, <1>4

\* An arg can be left out exactly if null is one of its values.
LEMMA OptionalIsNullable ==
  ASSUME NEW t \in WrappedTypes
  PROVE  t.nonNull[1] <=> [level |-> 1, is |-> "null"] \notin Values(t)
<1>1. Len(t.nonNull) \in Nat \ {0} /\ DOMAIN t.nonNull = 1..Len(t.nonNull) /\ t.leaf \in Leaves
  BY DEF WrappedTypes
<1>2. 1 \in DOMAIN t.nonNull /\ t.leaf # "null"
  BY <1>1, LeavesAssumption
<1> QED BY <1>2 DEF Values

\* No arg of a field is reported exactly if everything the consumer sends is taken.
LEMMA ArgsBrokenIffRefused ==
  ASSUME NEW p, NEW c, IsField(p), IsField(c)
  PROVE  BrokenArgs(p, c) = {} <=>
           \A a \in DOMAIN p.args :
             IF a \in DOMAIN c.args
             THEN Values(c.args[a]) \subseteq Values(p.args[a])
             ELSE [level |-> 1, is |-> "null"] \in Values(p.args[a])
<1>1. ASSUME NEW a \in DOMAIN p.args, a \in DOMAIN c.args
      PROVE  Satisfies(c.args[a], p.args[a]) <=> Values(c.args[a]) \subseteq Values(p.args[a])
  BY <1>1, SatisfiesIsInclusion DEF IsField
<1>2. ASSUME NEW a \in DOMAIN p.args
      PROVE  p.args[a].nonNull[1] <=> [level |-> 1, is |-> "null"] \notin Values(p.args[a])
  BY OptionalIsNullable DEF IsField
<1> QED BY <1>1, <1>2 DEF BrokenArgs

\* breaking_field_descriptors reports nothing exactly if every field the consumer
\* refers to is there and understood, for surfaces of any size.
THEOREM NothingReportedIffUnderstood ==
  ASSUME NEW exposed, NEW referenced,
         \A f \in DOMAIN exposed : IsField(exposed[f]),
         \A f \in DOMAIN referenced : IsField(referenced[f])
  PROVE  BreakingFieldDescriptors(exposed, referenced) = {} <=>
           \A f \in DOMAIN referenced :
             f \in DOMAIN exposed /\ Understood(exposed[f], referenced[f])
<1> DEFINE Reported(f) ==
      IF f \notin DOMAIN exposed
      THEN {<<f>>}
      ELSE {<<f>> : x \in {y \in {f} : ~ Satisfies(exposed[f].type, referenced[f].type)}}
             \cup {<<f, a>> : a \in BrokenArgs(exposed[f], referenced[f])}
<1>1. BreakingFieldDescriptors(exposed, referenced) = {}
        <=> \A f \in DOMAIN referenced : Reported(f) = {}
  BY DEF BreakingFieldDescriptors
<1>2. ASSUME NEW f \in DOMAIN referenced, f \in DOMAIN exposed
      PROVE  Reported(f) = {} <=> Understood(exposed[f], referenced[f])
  <2>1. Reported(f) = {} <=>
          /\ Satisfies(exposed[f].type, referenced[f].type)
          /\ BrokenArgs(exposed[f], referenced[f]) = {}
    BY <1>2
  <2>2. Satisfies(exposed[f].type, referenced[f].type)
          <=> Values(exposed[f].type) \subseteq Values(referenced[f].type)
    BY <1>2, SatisfiesIsInclusion DEF IsField
  <2>3. IsField(exposed[f]) /\ IsField(referenced[f])
    BY <1>2
  <2> QED BY <2>1, <2>2, <2>3, ArgsBrokenIffRefused DEF Understood
<1>3. ASSUME NEW f \in DOMAIN referenced, f \notin DOMAIN exposed PROVE Reported(f) # {}
  BY <1>3
<1> QED
  <2> HIDE DEF Reported
  <2> QED BY <1>1, <1>2, <1>3

-----------------------------------------------------------------------------
(* Federation. The verdicts the hub writes, and the exit of its default    *)
(* gate, are those the declarations of the satellites call for.            *)

Composed ==
  [repo : Repos, landscape : Landscapes \cup {NoLandscape}, dst : [repo : Repos, ref : Refs],
   lifecycle : Lifecycles, contract : AtMostOne(ContractPayloads)]

ContractFields ==
  {"directions", "lifecycle", "verdict", "exposed", "references", "exposedFields",
   "referencedFields", "exposedBody", "referencedBody"}
EdgeVerdicts == {"external", "unmapped", "expected", "dead", "cleanup_candidate", "ok", "drift"}

\* What the first n artifacts export, and who declares a group.
IdsOf(x) == {Id(x.repo, ref) : ref \in DOMAIN x.nodes}
IdsIn(xs, n) == UNION {IdsOf(xs[k]) : k \in 1 .. n}
Declares(es, i, p, g) == p \in Payloads(es[i]) /\ Group(es, i, p) = g

\* The entry of a group after the first n edges.
EntryOK(es, c, n, g) ==
  /\ DOMAIN c = ContractFields
  /\ c.lifecycle \in Lifecycles
  /\ c.lifecycle = "active" <=>
       \A i \in 1 .. n : (\E p \in ContractPayloads : Declares(es, i, p, g)) => es[i].lifecycle = "active"
  /\ \A x : x \in c.directions <=>
              \E i \in 1 .. n, p \in ContractPayloads : Declares(es, i, p, g) /\ p.direction = x

ContractsIn(es, cs, n) ==
  /\ \A g : g \in DOMAIN cs <=> \E i \in 1 .. n, p \in ContractPayloads : Declares(es, i, p, g)
  /\ \A g \in DOMAIN cs : EntryOK(es, cs[g], n, g)
Judged == \A g \in DOMAIN contracts : contracts[g].verdict = Classify(g[2][1], contracts[g])

Loaded == DOMAIN nodes = IdsIn(exports, Len(exports))
VerdictsUpTo(n) ==
  /\ verdicts \in Seq(EdgeVerdicts) /\ Len(verdicts) = n
  /\ \A i \in 1 .. n : verdicts[i] = EdgeVerdict(edges[i], nodes)
SweptAll ==
  /\ DOMAIN verdicts = DOMAIN edges
  /\ \A i \in DOMAIN edges :
       verdicts[i] = IF Undeclared(edges, i) THEN "undeclared" ELSE EdgeVerdict(edges[i], nodes)
Decided ==
  failOn = {"default"} =>
    (exit = "failed" <=> GateFailures(verdicts, contracts, SafeDefault) # {})

\* What is known in each phase.
FedPhases ==
  /\ phase = "start" =>
       next = 1 /\ DOMAIN nodes = {} /\ edges = <<>> /\ verdicts = <<>> /\ DOMAIN contracts = {}
  /\ phase = "nodes" =>
       /\ next \in 1 .. Len(exports) + 1 /\ DOMAIN nodes = IdsIn(exports, next - 1)
       /\ verdicts = <<>> /\ DOMAIN contracts = {}
  /\ phase = "edges" =>
       next \in 1 .. Len(exports) + 1 /\ Loaded /\ verdicts = <<>> /\ DOMAIN contracts = {}
  /\ phase = "verdicts" =>
       next \in 1 .. Len(edges) + 1 /\ Loaded /\ VerdictsUpTo(next - 1) /\ DOMAIN contracts = {}
  /\ phase = "contracts" =>
       /\ next \in 1 .. Len(edges) + 1 /\ Loaded
       /\ VerdictsUpTo(Len(edges)) /\ ContractsIn(edges, contracts, next - 1)
  /\ phase = "classify" => Loaded /\ VerdictsUpTo(Len(edges)) /\ ContractsIn(edges, contracts, Len(edges))
  /\ phase = "sweep" =>
       Loaded /\ VerdictsUpTo(Len(edges)) /\ ContractsIn(edges, contracts, Len(edges)) /\ Judged
  /\ phase = "gate" => Loaded /\ SweptAll /\ ContractsIn(edges, contracts, Len(edges)) /\ Judged
  /\ phase = "done" => Loaded /\ SweptAll /\ ContractsIn(edges, contracts, Len(edges)) /\ Judged /\ Decided

FedInv ==
  /\ exports \in Seq(Exports)
  /\ edges \in Seq(Composed)
  /\ phase \in {"start", "stopped", "nodes", "edges", "verdicts", "contracts", "classify",
                "sweep", "gate", "done"}
  /\ FedPhases

LEMMA FedInitial == Init => FedInv
<1> SUFFICES ASSUME Init PROVE FedInv
  OBVIOUS
<1>1. exports \in Seq(Exports)
  BY ExportsAssumption DEF Init
<1>2. edges \in Seq(Composed)
  BY EmptySeq DEF Init
<1>3. FedPhases
  BY DEF Init, FedPhases
<1> QED
  BY <1>1, <1>2, <1>3 DEF Init, FedInv

LEMMA ResolvedTyped ==
  ASSUME NEW x \in Exports
  PROVE  ResolvedEdges(x) \in Seq(Composed)
<1>1. x.repo \in Repos /\ x.landscape \in Landscapes \cup {NoLandscape} /\ x.edges \in Seq(ExportedEdges)
  BY DEF Exports
<1> HIDE DEF Lifecycles, AtMostOne
<1>2. DOMAIN x.edges = 1 .. Len(x.edges) /\ Len(x.edges) \in Nat
  BY <1>1, LenProperties
<1>3. ASSUME NEW i \in 1 .. Len(x.edges)
      PROVE  [repo |-> x.repo, landscape |-> x.landscape, dst |-> x.edges[i].dst,
              lifecycle |-> x.edges[i].lifecycle, contract |-> x.edges[i].contract] \in Composed
  <2>1. x.edges[i] \in ExportedEdges
    BY <1>1, <1>2, ElementOfSeq
  <2> QED
    BY <1>1, <2>1 DEF Composed, ExportedEdges
<1> HIDE DEF Composed
<1> DEFINE n == Len(x.edges)
           R == ResolvedEdges(x)
<1>4. R \in [1 .. n -> Composed]
  BY <1>2, <1>3 DEF ResolvedEdges
<1>5. n \in Nat
  BY <1>2
<1> HIDE DEF n, R
<1>6. R \in Seq(Composed)
  BY <1>4, <1>5, SeqDef
<1> QED
  BY <1>6 DEF R

\* Of the loops, those over the artifacts.
LEMMA NodesAdded ==
  ASSUME FedInv, AddNodes
  PROVE  FedInv'
<1>1. /\ phase = "nodes" /\ next <= Len(exports) /\ next' = next + 1
      /\ nodes' = Merged(nodes, NodesOf(exports[next]))
      /\ UNCHANGED <<exports, failOn, phase, edges, verdicts, unresolved, contracts, failures, exit>>
  BY DEF AddNodes, Looping
<1>2. next \in 1 .. Len(exports) + 1 /\ DOMAIN nodes = IdsIn(exports, next - 1) /\ Len(exports) \in Nat
  BY <1>1, LenProperties DEF FedInv, FedPhases
<1>3. DOMAIN NodesOf(exports[next]) = IdsOf(exports[next])
  BY DEF NodesOf, IdsOf
<1>4. DOMAIN nodes' = DOMAIN nodes \cup DOMAIN NodesOf(exports[next])
  BY <1>1 DEF Merged
<1>5. IdsIn(exports, next) = IdsIn(exports, next - 1) \cup IdsOf(exports[next])
  <2>1. \A id, n : id \in IdsIn(exports, n) <=> \E k \in 1 .. n : id \in IdsOf(exports[k])
    BY DEF IdsIn
  <2>2. \A k : k \in 1 .. next <=> k \in 1 .. (next - 1) \/ k = next
    BY <1>2
  <2>3. \A id : id \in IdsIn(exports, next) <=> id \in IdsIn(exports, next - 1) \/ id \in IdsOf(exports[next])
    BY <2>1, <2>2
  <2> QED
    BY <2>3
<1>6. next' \in 1 .. Len(exports) + 1 /\ next' - 1 = next
  BY <1>1, <1>2
<1>7. DOMAIN nodes' = IdsIn(exports, next' - 1)
  BY <1>2, <1>3, <1>4, <1>5, <1>6
<1>8. exports' \in Seq(Exports) /\ edges' \in Seq(Composed) /\ phase' = "nodes"
  BY <1>1 DEF FedInv
<1>9. verdicts = <<>> /\ DOMAIN contracts = {}
  BY <1>1 DEF FedInv, FedPhases
<1>10. FedPhases'
  BY <1>1, <1>6, <1>7, <1>8, <1>9 DEF FedPhases
<1> QED
  BY <1>8, <1>10 DEF FedInv

LEMMA EdgesAdded ==
  ASSUME FedInv, AddEdges
  PROVE  FedInv'
<1>1. /\ phase = "edges" /\ next <= Len(exports) /\ next' = next + 1
      /\ edges' = edges \o ResolvedEdges(exports[next])
      /\ UNCHANGED <<exports, failOn, phase, nodes, verdicts, unresolved, contracts, failures, exit>>
  BY DEF AddEdges, Looping
<1>2. /\ next \in 1 .. Len(exports) + 1 /\ Loaded /\ verdicts = <<>> /\ DOMAIN contracts = {}
      /\ exports \in Seq(Exports) /\ Len(exports) \in Nat /\ DOMAIN exports = 1 .. Len(exports)
  BY <1>1, LenProperties DEF FedInv, FedPhases
<1>3. exports[next] \in Exports
  BY <1>1, <1>2, ElementOfSeq
<1>4. edges' \in Seq(Composed)
  BY <1>1, <1>3, ResolvedTyped, ConcatProperties DEF FedInv
<1>5. next' \in 1 .. Len(exports) + 1 /\ exports' \in Seq(Exports) /\ phase' = "edges"
  BY <1>1, <1>2
<1>6. FedPhases'
  BY <1>1, <1>2, <1>5 DEF FedPhases, Loaded
<1> QED
  BY <1>4, <1>5, <1>6 DEF FedInv

\* What a verdict may be; only the sweep says "undeclared".
LEMMA VerdictIs ==
  ASSUME NEW edge \in Composed, NEW union
  PROVE  /\ EdgeVerdict(edge, union) \in EdgeVerdicts
         /\ EdgeVerdict(edge, union) \in SafeDefault <=>
              edge.lifecycle = "active" /\ edge.dst \notin DOMAIN union
<1>1. edge.lifecycle \in Lifecycles
  BY DEF Composed
<1>2. CASE edge.lifecycle = "external" \/ (edge.dst \in DOMAIN union /\ union[edge.dst].external)
  BY <1>2 DEF EdgeVerdict, EdgeVerdicts, SafeDefault
<1>3. CASE ~(edge.lifecycle = "external" \/ (edge.dst \in DOMAIN union /\ union[edge.dst].external))
  <2>1. CASE edge.lifecycle = "active" /\ edge.dst \in DOMAIN union /\ ~union[edge.dst].described
    BY <1>3, <2>1 DEF EdgeVerdict, EdgeVerdicts, SafeDefault
  <2>2. CASE ~(edge.lifecycle = "active" /\ edge.dst \in DOMAIN union /\ ~union[edge.dst].described)
    <3>1. EdgeVerdict(edge, union) = ByLifecycle(edge.lifecycle, edge.dst \in DOMAIN union)
      BY <1>3, <2>2 DEF EdgeVerdict
    <3>2. edge.lifecycle \in {"active", "planned", "deprecated", "dead"}
      BY <1>1, <1>3 DEF Lifecycles
    <3>3. ByLifecycle(edge.lifecycle, edge.dst \in DOMAIN union) \in EdgeVerdicts
      BY <3>2 DEF ByLifecycle, EdgeVerdicts
    <3>4. ByLifecycle(edge.lifecycle, edge.dst \in DOMAIN union) \in SafeDefault <=>
            edge.lifecycle = "active" /\ edge.dst \notin DOMAIN union
      BY <3>2 DEF ByLifecycle, SafeDefault
    <3> QED
      BY <3>1, <3>3, <3>4
  <2> QED
    BY <2>1, <2>2
<1> QED
  BY <1>2, <1>3

LEMMA VerdictAssigned ==
  ASSUME FedInv, AssignVerdict
  PROVE  FedInv'
<1>1. /\ phase = "verdicts" /\ next <= Len(edges) /\ next' = next + 1
      /\ verdicts' = Append(verdicts, EdgeVerdict(edges[next], nodes))
      /\ UNCHANGED <<exports, failOn, phase, nodes, edges, contracts, failures, exit>>
  BY DEF AssignVerdict, Looping
<1>2. /\ next \in 1 .. Len(edges) + 1 /\ Loaded /\ VerdictsUpTo(next - 1) /\ DOMAIN contracts = {}
      /\ edges \in Seq(Composed) /\ Len(edges) \in Nat
  BY <1>1, LenProperties DEF FedInv, FedPhases
<1>3. edges[next] \in Composed
  BY <1>1, <1>2, ElementOfSeq
<1> DEFINE v == EdgeVerdict(edges[next], nodes)
<1>4. v \in EdgeVerdicts
  BY <1>3, VerdictIs
<1> HIDE DEF v
<1>5. verdicts' = Append(verdicts, v)
  BY <1>1 DEF v
<1>6. /\ verdicts' \in Seq(EdgeVerdicts) /\ Len(verdicts') = next' - 1
      /\ \A i \in 1 .. (next' - 1) : verdicts'[i] = EdgeVerdict(edges[i], nodes)
  <2>1. verdicts \in Seq(EdgeVerdicts) /\ Len(verdicts) = next - 1
    BY <1>2 DEF VerdictsUpTo
  <2>2. verdicts' \in Seq(EdgeVerdicts) /\ Len(verdicts') = next' - 1
    BY <1>1, <1>2, <1>4, <1>5, <2>1, AppendProperties
  <2>3. verdicts'[next] = v /\ \A i \in 1 .. (next - 1) : verdicts'[i] = verdicts[i]
    BY <1>1, <1>2, <1>4, <1>5, <2>1, AppendProperties
  <2>4. \A i \in 1 .. (next - 1) : verdicts[i] = EdgeVerdict(edges[i], nodes)
    BY <1>2 DEF VerdictsUpTo
  <2>5. \A i \in 1 .. (next' - 1) : i = next \/ i \in 1 .. (next - 1)
    BY <1>1, <1>2
  <2>6. \A i \in 1 .. (next' - 1) : verdicts'[i] = EdgeVerdict(edges[i], nodes)
    BY <2>3, <2>4, <2>5 DEF v
  <2> QED
    BY <2>2, <2>6
<1>7. VerdictsUpTo(next - 1)'
  BY <1>1, <1>6 DEF VerdictsUpTo
<1>8. next' \in 1 .. Len(edges) + 1 /\ exports' \in Seq(Exports) /\ phase' = "verdicts"
  BY <1>1, <1>2 DEF FedInv
<1>9. FedPhases'
  BY <1>1, <1>2, <1>7, <1>8 DEF FedPhases, Loaded
<1> QED
  BY <1>1, <1>2, <1>8, <1>9 DEF FedInv

\* The fold of an edge: the payload it carries, if any, is put to its group.
LEMMA OnePayload ==
  ASSUME NEW edge \in Composed, NEW p \in Payloads(edge)
  PROVE  p \in ContractPayloads /\ \A q \in Payloads(edge) : q = p
  BY DEF Composed, AtMostOne, Payloads

EntryFor(cs, g) == IF g \in DOMAIN cs THEN cs[g] ELSE NewContract
PutTo(new, cs, g, c) ==
  /\ DOMAIN new = DOMAIN cs \cup {g} /\ new[g] = c
  /\ \A h \in DOMAIN cs : h # g => new[h] = cs[h]

LEMMA FoldedIs ==
  ASSUME NEW cs, NEW edge \in Composed, NEW keys, NEW p \in Payloads(edge)
  PROVE  LET g == GroupKey(edge, p, keys) IN
         PutTo(Folded(cs, edge, keys), cs, g, Accumulated(EntryFor(cs, g), edge, p))
<1> DEFINE g == GroupKey(edge, p, keys)
           EntryOf(h) == IF h \in DOMAIN cs THEN cs[h] ELSE NewContract
           one == CHOOSE q \in Payloads(edge) : TRUE
           D == {GroupKey(edge, q, keys) : q \in Payloads(edge)}
           m == [h \in D |-> Accumulated(EntryOf(h), edge, one)]
<1>1. Folded(cs, edge, keys) = Merged(cs, m)
  BY DEF Folded
<1>2. one = p
  BY OnePayload
<1>3. D = {g}
  BY OnePayload
<1>4. m[g] = Accumulated(EntryOf(g), edge, p) /\ DOMAIN m = {g}
  <2> HIDE DEF EntryOf, one, D
  <2> QED
    BY <1>2, <1>3
<1> DEFINE e == EntryOf(g)
<1>5. e = IF g \in DOMAIN cs THEN cs[g] ELSE NewContract
  OBVIOUS
<1> HIDE DEF e, m, EntryOf, g
<1>6. /\ DOMAIN Merged(cs, m) = DOMAIN cs \cup DOMAIN m
      /\ \A h \in DOMAIN cs \cup DOMAIN m :
           Merged(cs, m)[h] = IF h \in DOMAIN m THEN m[h] ELSE cs[h]
  BY DEF Merged
<1>7. m[g] = Accumulated(e, edge, p)
  BY <1>4 DEF e
<1>8. Merged(cs, m)[g] = m[g] /\ \A h \in DOMAIN cs : h # g => Merged(cs, m)[h] = cs[h]
  BY <1>4, <1>6
<1>9. e = EntryFor(cs, g)
  BY <1>5 DEF EntryFor
<1>10. PutTo(Merged(cs, m), cs, g, Accumulated(EntryFor(cs, g), edge, p))
  BY <1>4, <1>6, <1>7, <1>8, <1>9 DEF PutTo
<1> QED
  BY <1>1, <1>10 DEF g

LEMMA FoldedNothing ==
  ASSUME NEW cs, NEW edge, NEW keys, Payloads(edge) = {}
  PROVE  LET new == Folded(cs, edge, keys) IN
         DOMAIN new = DOMAIN cs /\ \A g \in DOMAIN cs : new[g] = cs[g]
<1> DEFINE EntryOf(h) == IF h \in DOMAIN cs THEN cs[h] ELSE NewContract
           one == CHOOSE q \in Payloads(edge) : TRUE
           D == {GroupKey(edge, q, keys) : q \in Payloads(edge)}
           m == [h \in D |-> Accumulated(EntryOf(h), edge, one)]
<1>1. Folded(cs, edge, keys) = Merged(cs, m)
  BY DEF Folded
<1>2. DOMAIN m = {}
  OBVIOUS
<1> HIDE DEF m
<1>3. DOMAIN Merged(cs, m) = DOMAIN cs /\ \A g \in DOMAIN cs : Merged(cs, m)[g] = cs[g]
  BY <1>2 DEF Merged
<1> QED
  BY <1>1, <1>3

LEMMA AccumulatedIs ==
  ASSUME NEW c, DOMAIN c = ContractFields, NEW edge, NEW p
  PROVE  /\ DOMAIN Accumulated(c, edge, p) = ContractFields
         /\ Accumulated(c, edge, p).directions = c.directions \cup {p.direction}
         /\ Accumulated(c, edge, p).lifecycle = MoreSignificant(c.lifecycle, edge.lifecycle)
  BY DEF Accumulated, ContractFields

LEMMA MoreSignificantIs ==
  ASSUME NEW a \in Lifecycles, NEW b \in Lifecycles
  PROVE  /\ MoreSignificant(a, b) \in Lifecycles
         /\ MoreSignificant(a, b) = "active" <=> a = "active" /\ b = "active"
<1>1. /\ Significance["active"] = 1 /\ Significance["planned"] = 2 /\ Significance["deprecated"] = 3
      /\ Significance["dead"] = 4 /\ Significance["external"] = 5
  BY DEF Significance
<1> QED
  BY <1>1 DEF Lifecycles, MoreSignificant

LEMMA EntryGrows ==
  ASSUME NEW n \in Nat, NEW g, NEW c, EntryOK(edges, c, n, g), edges[n + 1] \in Composed,
         NEW p \in ContractPayloads, Declares(edges, n + 1, p, g)
  PROVE  EntryOK(edges, Accumulated(c, edges[n + 1], p), n + 1, g)
<1> DEFINE edge == edges[n + 1]
           a == Accumulated(c, edge, p)
<1>1. edge.lifecycle \in Lifecycles /\ c.lifecycle \in Lifecycles /\ DOMAIN c = ContractFields
  BY DEF Composed, EntryOK
<1>2. /\ DOMAIN a = ContractFields /\ a.directions = c.directions \cup {p.direction}
      /\ a.lifecycle = MoreSignificant(c.lifecycle, edge.lifecycle)
  BY <1>1, AccumulatedIs
<1>3. \A q : Declares(edges, n + 1, q, g) => q = p
  BY OnePayload DEF Declares
<1>4. \A i : i \in 1 .. (n + 1) <=> i \in 1 .. n \/ i = n + 1
  OBVIOUS
<1> HIDE DEF a
<1>5. a.lifecycle \in Lifecycles /\ (a.lifecycle = "active" <=> c.lifecycle = "active" /\ edge.lifecycle = "active")
  BY <1>1, <1>2, MoreSignificantIs
<1>6. c.lifecycle = "active" <=>
        \A i \in 1 .. n : (\E q \in ContractPayloads : Declares(edges, i, q, g)) => edges[i].lifecycle = "active"
  BY DEF EntryOK
<1>7. a.lifecycle = "active" <=>
        \A i \in 1 .. (n + 1) : (\E q \in ContractPayloads : Declares(edges, i, q, g)) => edges[i].lifecycle = "active"
  BY <1>4, <1>5, <1>6
<1>8. \A x : x \in c.directions <=>
               \E i \in 1 .. n, q \in ContractPayloads : Declares(edges, i, q, g) /\ q.direction = x
  BY DEF EntryOK
<1>9. \A x : x \in a.directions <=>
               \E i \in 1 .. (n + 1), q \in ContractPayloads : Declares(edges, i, q, g) /\ q.direction = x
  BY <1>2, <1>3, <1>4, <1>8
<1> QED
  BY <1>2, <1>5, <1>7, <1>9 DEF EntryOK, a

LEMMA EntryStays ==
  ASSUME NEW n \in Nat, NEW g, NEW c, EntryOK(edges, c, n, g),
         \A p \in ContractPayloads : ~Declares(edges, n + 1, p, g)
  PROVE  EntryOK(edges, c, n + 1, g)
<1>1. \A i : i \in 1 .. (n + 1) <=> i \in 1 .. n \/ i = n + 1
  OBVIOUS
<1> QED
  BY <1>1 DEF EntryOK

LEMMA NewEntry ==
  ASSUME NEW n \in Nat, NEW g, ~\E i \in 1 .. n, p \in ContractPayloads : Declares(edges, i, p, g)
  PROVE  EntryOK(edges, NewContract, n, g)
  BY DEF EntryOK, NewContract, ContractFields, Lifecycles

LEMMA ContractsGrow ==
  ASSUME NEW n \in Nat, ContractsIn(edges, contracts, n), edges[n + 1] \in Composed,
         contracts' = Folded(contracts, edges[n + 1], CrossLandscapeKeys(edges))
  PROVE  ContractsIn(edges, contracts', n + 1)
<1> DEFINE edge == edges[n + 1]
<1>1. \A i : i \in 1 .. (n + 1) <=> i \in 1 .. n \/ i = n + 1
  OBVIOUS
<1>2. CASE Payloads(edge) = {}
  <2>1. DOMAIN contracts' = DOMAIN contracts /\ \A g \in DOMAIN contracts : contracts'[g] = contracts[g]
    BY <1>2, FoldedNothing
  <2>2. \A p, g : ~Declares(edges, n + 1, p, g)
    BY <1>2 DEF Declares
  <2>3. \A g : g \in DOMAIN contracts' <=> \E i \in 1 .. (n + 1), p \in ContractPayloads : Declares(edges, i, p, g)
    BY <1>1, <2>1, <2>2 DEF ContractsIn
  <2>4. \A g \in DOMAIN contracts' : EntryOK(edges, contracts'[g], n + 1, g)
    BY <2>1, <2>2, EntryStays DEF ContractsIn
  <2> QED
    BY <2>3, <2>4 DEF ContractsIn
<1>3. CASE Payloads(edge) # {}
  <2>1. PICK p \in Payloads(edge) : TRUE
    BY <1>3
  <2> DEFINE g0 == Group(edges, n + 1, p)
             c0 == EntryFor(contracts, g0)
  <2>11. PutTo(contracts', contracts, g0, Accumulated(c0, edge, p))
    <3> DEFINE keys == CrossLandscapeKeys(edges)
    <3>1. contracts' = Folded(contracts, edge, keys)
      OBVIOUS
    <3>2. g0 = GroupKey(edge, p, keys)
      BY DEF Group
    <3>3. edge \in Composed
      OBVIOUS
    <3> HIDE DEF g0, edge, keys
    <3>4. PutTo(Folded(contracts, edge, keys), contracts, GroupKey(edge, p, keys),
                Accumulated(EntryFor(contracts, GroupKey(edge, p, keys)), edge, p))
      BY <3>3, FoldedIs
    <3> QED
      BY <3>1, <3>2, <3>4
  <2>2. /\ DOMAIN contracts' = DOMAIN contracts \cup {g0}
        /\ contracts'[g0] = Accumulated(c0, edge, p)
        /\ \A h \in DOMAIN contracts : h # g0 => contracts'[h] = contracts[h]
    BY <2>11 DEF PutTo
  <2>3. p \in ContractPayloads /\ Declares(edges, n + 1, p, g0)
    BY <2>1, OnePayload DEF Declares
  <2>4. \A q, g : Declares(edges, n + 1, q, g) => g = g0
    BY <2>1, OnePayload DEF Declares
  <2>5. EntryOK(edges, c0, n, g0)
    <3>1. CASE g0 \in DOMAIN contracts
      BY <3>1 DEF ContractsIn, EntryFor
    <3>2. CASE g0 \notin DOMAIN contracts
      BY <3>2, NewEntry DEF ContractsIn, EntryFor
    <3> QED
      BY <3>1, <3>2
  <2> HIDE DEF g0, c0
  <2>6. EntryOK(edges, contracts'[g0], n + 1, g0)
    BY <2>2, <2>3, <2>5, EntryGrows
  <2>7. \A g \in DOMAIN contracts' : EntryOK(edges, contracts'[g], n + 1, g)
    <3> SUFFICES ASSUME NEW g \in DOMAIN contracts', g # g0 PROVE EntryOK(edges, contracts'[g], n + 1, g)
      BY <2>6
    <3>1. g \in DOMAIN contracts /\ contracts'[g] = contracts[g]
      BY <2>2
    <3>2. EntryOK(edges, contracts[g], n, g)
      BY <3>1 DEF ContractsIn
    <3>3. \A q \in ContractPayloads : ~Declares(edges, n + 1, q, g)
      BY <2>4
    <3> QED
      BY <3>1, <3>2, <3>3, EntryStays
  <2>8. \A g : g \in DOMAIN contracts' <=> \E i \in 1 .. (n + 1), q \in ContractPayloads : Declares(edges, i, q, g)
    BY <1>1, <2>2, <2>3, <2>4 DEF ContractsIn
  <2> QED
    BY <2>7, <2>8 DEF ContractsIn
<1> QED
  BY <1>2, <1>3

LEMMA Reconciles ==
  ASSUME FedInv, Reconcile
  PROVE  FedInv'
<1>1. /\ phase = "contracts" /\ next <= Len(edges) /\ next' = next + 1
      /\ contracts' = Folded(contracts, edges[next], CrossLandscapeKeys(edges))
      /\ UNCHANGED <<exports, failOn, phase, nodes, edges, verdicts, unresolved, failures, exit>>
  BY DEF Reconcile, Looping
<1>2. /\ next \in 1 .. Len(edges) + 1 /\ Loaded /\ VerdictsUpTo(Len(edges)) /\ ContractsIn(edges, contracts, next - 1)
      /\ edges \in Seq(Composed) /\ Len(edges) \in Nat
  BY <1>1, LenProperties DEF FedInv, FedPhases
<1>3. edges[next] \in Composed
  BY <1>1, <1>2, ElementOfSeq
<1>4. ContractsIn(edges, contracts', next)
  <2> DEFINE n == next - 1
  <2>1. n \in Nat /\ n + 1 = next
    BY <1>1, <1>2
  <2>2. ContractsIn(edges, contracts, n)
    BY <1>2
  <2> HIDE DEF n
  <2> QED
    BY <1>1, <1>3, <2>1, <2>2, ContractsGrow
<1>5. next' - 1 = next /\ next' \in 1 .. Len(edges) + 1
  BY <1>1, <1>2
<1>6. FedPhases'
  BY <1>1, <1>2, <1>4, <1>5 DEF FedPhases, Loaded, VerdictsUpTo
<1> QED
  BY <1>1, <1>2, <1>6 DEF FedInv

\* The verdict of a contract does not depend on the verdict it had.
MissingOf(protocol, exposedBody, referencedBody, exposedFields, referencedFields, references, exposed) ==
  CASE protocol = "amqp" -> UNION {BreakingBodyDescriptors(p, r) : p \in exposedBody, r \in referencedBody}
    [] protocol = "graphql" /\ exposedFields # EmptySurface /\ referencedFields # EmptySurface ->
         BreakingFieldDescriptors(exposedFields, referencedFields)
    [] OTHER -> {<<n>> : n \in references \ exposed}

LEMMA ClassifyAgain ==
  ASSUME NEW c, NEW d, NEW protocol, d.lifecycle = c.lifecycle, d.directions = c.directions,
         d.exposedBody = c.exposedBody, d.referencedBody = c.referencedBody,
         d.exposedFields = c.exposedFields, d.referencedFields = c.referencedFields,
         d.references = c.references, d.exposed = c.exposed
  PROVE  Classify(protocol, d) = Classify(protocol, c)
<1>1. Missing(protocol, c) = MissingOf(protocol, c.exposedBody, c.referencedBody, c.exposedFields,
                                       c.referencedFields, c.references, c.exposed)
  BY DEF Missing, MissingOf, Typed
<1>2. Missing(protocol, d) = MissingOf(protocol, d.exposedBody, d.referencedBody, d.exposedFields,
                                       d.referencedFields, d.references, d.exposed)
  BY DEF Missing, MissingOf, Typed
<1>3. Missing(protocol, d) = Missing(protocol, c)
  BY <1>1, <1>2
<1> QED
  BY <1>3 DEF Classify

LEMMA ClassifiesAll ==
  ASSUME FedInv, ClassifyAll
  PROVE  FedInv'
<1>1. /\ phase = "classify" /\ phase' = "sweep" /\ contracts' = Classified(contracts)
      /\ UNCHANGED <<exports, failOn, next, nodes, edges, verdicts, unresolved, failures, exit>>
  BY DEF ClassifyAll
<1>2. Loaded /\ VerdictsUpTo(Len(edges)) /\ ContractsIn(edges, contracts, Len(edges))
  BY <1>1 DEF FedInv, FedPhases
<1>3. DOMAIN contracts' = DOMAIN contracts
  BY <1>1 DEF Classified
<1>4. ASSUME NEW g \in DOMAIN contracts
      PROVE  /\ EntryOK(edges, contracts'[g], Len(edges), g)
             /\ contracts'[g].verdict = Classify(g[2][1], contracts'[g])
  <2> DEFINE c == contracts[g]
             v == Classify(g[2][1], c)
             d == [c EXCEPT !.verdict = v]
  <2>1. contracts'[g] = d
    BY <1>1 DEF Classified
  <2>2. EntryOK(edges, c, Len(edges), g)
    BY <1>2 DEF ContractsIn
  <2>3. DOMAIN c = ContractFields
    BY <2>2 DEF EntryOK
  <2> HIDE DEF v, c
  <2>4. /\ DOMAIN d = ContractFields /\ d.verdict = v /\ d.lifecycle = c.lifecycle
        /\ d.directions = c.directions
        /\ d.exposedBody = c.exposedBody /\ d.referencedBody = c.referencedBody
        /\ d.exposedFields = c.exposedFields /\ d.referencedFields = c.referencedFields
        /\ d.references = c.references /\ d.exposed = c.exposed
    BY <2>3 DEF ContractFields
  <2> HIDE DEF d
  <2>5. Classify(g[2][1], d) = v
    BY <2>4, ClassifyAgain DEF v
  <2>6. EntryOK(edges, d, Len(edges), g)
    BY <2>2, <2>4 DEF EntryOK
  <2> QED
    BY <2>1, <2>4, <2>5, <2>6
<1>5. Judged' /\ ContractsIn(edges, contracts', Len(edges))
  BY <1>2, <1>3, <1>4 DEF Judged, ContractsIn
<1>6. FedPhases'
  BY <1>1, <1>2, <1>5 DEF FedPhases, Loaded, VerdictsUpTo
<1> QED
  BY <1>1, <1>6 DEF FedInv

LEMMA MarksUndeclared ==
  ASSUME FedInv, MarkUndeclared
  PROVE  FedInv'
<1>1. /\ phase = "sweep" /\ phase' = "gate" /\ verdicts' = Swept(edges, verdicts)
      /\ UNCHANGED <<exports, failOn, next, nodes, edges, unresolved, contracts, failures, exit>>
  BY DEF MarkUndeclared
<1>2. /\ Loaded /\ VerdictsUpTo(Len(edges)) /\ ContractsIn(edges, contracts, Len(edges)) /\ Judged
      /\ DOMAIN edges = 1 .. Len(edges)
  BY <1>1, LenProperties DEF FedInv, FedPhases
<1>3. \A i \in DOMAIN edges : verdicts[i] = EdgeVerdict(edges[i], nodes)
  BY <1>2 DEF VerdictsUpTo
<1>4. SweptAll'
  BY <1>1, <1>3 DEF SweptAll, Swept
<1>5. FedPhases'
  BY <1>1, <1>2, <1>4 DEF FedPhases, Loaded, Judged
<1> QED
  BY <1>1, <1>5 DEF FedInv

LEMMA Gates ==
  ASSUME FedInv, Gate
  PROVE  FedInv'
<1>1. /\ phase = "gate" /\ phase' = "done"
      /\ failures' = IF failOn = {} THEN {} ELSE GateFailures(verdicts, contracts, FailSet)
      /\ exit' = IF failures' = {} THEN "ok" ELSE "failed"
      /\ UNCHANGED <<exports, failOn, next, nodes, edges, verdicts, unresolved, contracts>>
  BY DEF Gate, Fed
<1>2. Loaded /\ SweptAll /\ ContractsIn(edges, contracts, Len(edges)) /\ Judged
  BY <1>1 DEF FedInv, FedPhases
<1>3. Decided'
  <2> SUFFICES ASSUME failOn = {"default"}
               PROVE  exit' = "failed" <=> GateFailures(verdicts, contracts, SafeDefault) # {}
    BY <1>1 DEF Decided
  <2>1. FailSet = SafeDefault /\ failOn # {}
    BY DEF FailSet
  <2> QED
    BY <1>1, <2>1
<1>4. FedPhases'
  BY <1>1, <1>2, <1>3 DEF FedPhases, Loaded, SweptAll, Judged
<1> QED
  BY <1>1, <1>4 DEF FedInv

LEMMA NoContracts == ASSUME DOMAIN contracts = {} PROVE ContractsIn(edges, contracts, 0)
  BY DEF ContractsIn

LEMMA NothingLoaded == IdsIn(exports, 0) = {}
  BY DEF IdsIn

LEMMA LoopsFollow ==
  ASSUME FedInv, NextLoop
  PROVE  FedInv'
<1>1. /\ phase \in DOMAIN After /\ phase' = After[phase] /\ next' = 1
      /\ next > (IF phase \in {"nodes", "edges"} THEN Len(exports) ELSE Len(edges))
      /\ UNCHANGED <<exports, failOn, failures, exit, nodes, edges, verdicts, unresolved, contracts>>
  BY DEF NextLoop, Fed
<1>2. Len(exports) \in Nat /\ Len(edges) \in Nat
  BY LenProperties DEF FedInv
<1>3. /\ DOMAIN After = {"nodes", "edges", "verdicts", "contracts"}
      /\ After["nodes"] = "edges" /\ After["edges"] = "verdicts"
      /\ After["verdicts"] = "contracts" /\ After["contracts"] = "classify"
  BY DEF After
<1>4. FedPhases
  BY DEF FedInv
<1>5. CASE phase = "nodes"
  <2>1. phase' = "edges"
    BY <1>1, <1>3, <1>5
  <2>2. next \in 1 .. Len(exports) + 1 /\ next > Len(exports)
    BY <1>1, <1>4, <1>5 DEF FedPhases
  <2>3. next - 1 = Len(exports)
    BY <1>2, <2>2
  <2>4. Loaded /\ verdicts = <<>> /\ DOMAIN contracts = {}
    BY <1>4, <1>5, <2>3 DEF FedPhases, Loaded
  <2> QED
    BY <1>1, <1>2, <2>1, <2>4 DEF FedInv, FedPhases, Loaded
<1>6. CASE phase = "edges"
  <2>1. phase' = "verdicts"
    BY <1>1, <1>3, <1>6
  <2>2. Loaded /\ verdicts = <<>> /\ DOMAIN contracts = {}
    BY <1>4, <1>6 DEF FedPhases
  <2>3. VerdictsUpTo(0)
    BY <2>2, EmptySeq DEF VerdictsUpTo
  <2>4. next' - 1 = 0 /\ next' \in 1 .. Len(edges) + 1
    BY <1>1, <1>2
  <2>5. VerdictsUpTo(next - 1)'
    BY <1>1, <2>3, <2>4 DEF VerdictsUpTo
  <2> QED
    BY <1>1, <1>2, <2>1, <2>2, <2>4, <2>5 DEF FedInv, FedPhases, Loaded
<1>7. CASE phase = "verdicts"
  <2>1. phase' = "contracts"
    BY <1>1, <1>3, <1>7
  <2>2. Loaded /\ VerdictsUpTo(next - 1) /\ DOMAIN contracts = {} /\ next \in 1 .. Len(edges) + 1
    BY <1>4, <1>7 DEF FedPhases
  <2>3. next - 1 = Len(edges)
    BY <1>1, <1>2, <1>7, <2>2
  <2>4. VerdictsUpTo(Len(edges))'
    BY <1>1, <2>2, <2>3 DEF VerdictsUpTo
  <2>5. next' - 1 = 0 /\ next' \in 1 .. Len(edges) + 1
    BY <1>1, <1>2
  <2>6. ContractsIn(edges, contracts, next - 1)'
    BY <1>1, <2>2, <2>5, NoContracts
  <2> QED
    BY <1>1, <1>2, <2>1, <2>2, <2>4, <2>5, <2>6 DEF FedInv, FedPhases, Loaded
<1>8. CASE phase = "contracts"
  <2>1. phase' = "classify"
    BY <1>1, <1>3, <1>8
  <2>2. /\ Loaded /\ VerdictsUpTo(Len(edges)) /\ ContractsIn(edges, contracts, next - 1)
        /\ next \in 1 .. Len(edges) + 1
    BY <1>4, <1>8 DEF FedPhases
  <2>3. next - 1 = Len(edges)
    BY <1>1, <1>2, <1>8, <2>2
  <2>4. ContractsIn(edges, contracts, Len(edges))'
    BY <1>1, <2>2, <2>3
  <2> QED
    BY <1>1, <2>1, <2>2, <2>4 DEF FedInv, FedPhases, Loaded, VerdictsUpTo
<1> QED
  BY <1>1, <1>3, <1>5, <1>6, <1>7, <1>8

LEMMA FedEnds ==
  ASSUME FedInv, TooFew \/ RejectFailOn \/ Unreadable \/ Start
  PROVE  FedInv'
<1>1. /\ phase = "start" /\ phase' \in {"stopped", "nodes"}
      /\ UNCHANGED <<exports, failOn, next, nodes, edges, verdicts, contracts>>
  BY DEF TooFew, RejectFailOn, Unreadable, Start, Refuse, Fed
<1>2. next = 1 /\ DOMAIN nodes = {} /\ edges = <<>> /\ verdicts = <<>> /\ DOMAIN contracts = {}
  BY <1>1 DEF FedInv, FedPhases
<1>3. next' - 1 = 0 /\ next' \in 1 .. Len(exports) + 1
  BY <1>1, <1>2, LenProperties DEF FedInv
<1>4. DOMAIN nodes' = IdsIn(exports, next - 1)'
  BY <1>1, <1>2, <1>3, NothingLoaded
<1> QED
  BY <1>1, <1>2, <1>3, <1>4 DEF FedInv, FedPhases

LEMMA FedStep == FedInv /\ [Next]_vars => FedInv'
<1> SUFFICES ASSUME FedInv, [Next]_vars PROVE FedInv'
  OBVIOUS
<1>1. CASE Next
  BY <1>1, FedEnds, LoopsFollow, NodesAdded, EdgesAdded, VerdictAssigned, Reconciles,
     ClassifiesAll, MarksUndeclared, Gates DEF Next
<1>2. CASE UNCHANGED vars
  BY <1>2 DEF vars, FedInv, FedPhases, Loaded, VerdictsUpTo, SweptAll, Judged, Decided
<1> QED
  BY <1>1, <1>2

\* In the end: what the declarations of a group say, and what its entry says.
DirectionsOf(g) == {d[2].direction : d \in Declarations(edges, g)}

LEMMA DeclarationsAre ==
  ASSUME edges \in Seq(Composed), NEW g
  PROVE  \A d : d \in Declarations(edges, g) <=>
           \E i \in 1 .. Len(edges), p \in ContractPayloads : d = <<i, p>> /\ Declares(edges, i, p, g)
<1>1. DOMAIN edges = 1 .. Len(edges) /\ Len(edges) \in Nat
  BY LenProperties
<1>2. \A i \in 1 .. Len(edges) : edges[i] \in Composed
  BY <1>1, ElementOfSeq
<1>3. \A i \in 1 .. Len(edges) : Payloads(edges[i]) \subseteq ContractPayloads
  BY <1>2, OnePayload
<1>4. Declarations(edges, g) =
        UNION {{<<i, p>> : p \in {q \in Payloads(edges[i]) : Group(edges, i, q) = g}} : i \in 1 .. Len(edges)}
  BY <1>1 DEF Declarations
<1>5. \A d : d \in Declarations(edges, g) <=>
        \E i \in 1 .. Len(edges) : \E p \in Payloads(edges[i]) : d = <<i, p>> /\ Group(edges, i, p) = g
  BY <1>4
<1> QED
  BY <1>3, <1>5 DEF Declares

\* The same, by the places of the pairs.
LEMMA DeclaredPairs ==
  ASSUME edges \in Seq(Composed), NEW g
  PROVE  /\ \A d \in Declarations(edges, g) :
              /\ d[1] \in 1 .. Len(edges) /\ d[2] \in ContractPayloads
              /\ Declares(edges, d[1], d[2], g)
         /\ \A i \in 1 .. Len(edges), p \in ContractPayloads :
              Declares(edges, i, p, g) =>
                \E d \in Declarations(edges, g) : d[1] = i /\ d[2] = p
<1>1. ASSUME NEW d \in Declarations(edges, g)
      PROVE  /\ d[1] \in 1 .. Len(edges) /\ d[2] \in ContractPayloads
             /\ Declares(edges, d[1], d[2], g)
  <2>1. PICK i \in 1 .. Len(edges), p \in ContractPayloads : d = <<i, p>> /\ Declares(edges, i, p, g)
    BY DeclarationsAre
  <2>2. d[1] = i /\ d[2] = p
    BY <2>1
  <2> QED
    BY <2>1, <2>2
<1>2. ASSUME NEW i \in 1 .. Len(edges), NEW p \in ContractPayloads, Declares(edges, i, p, g)
      PROVE  \E d \in Declarations(edges, g) : d[1] = i /\ d[2] = p
  <2>1. <<i, p>> \in Declarations(edges, g)
    BY <1>2, DeclarationsAre
  <2>2. <<i, p>>[1] = i /\ <<i, p>>[2] = p
    OBVIOUS
  <2> QED
    BY <2>1, <2>2
<1> QED
  BY <1>1, <1>2

LEMMA DirectionsAre ==
  ASSUME edges \in Seq(Composed), NEW g
  PROVE  \A x : x \in DirectionsOf(g) <=>
           \E i \in 1 .. Len(edges), p \in ContractPayloads : Declares(edges, i, p, g) /\ p.direction = x
<1> TAKE x
<1> DEFINE D == Declarations(edges, g)
<1>1. x \in DirectionsOf(g) <=> \E d \in D : d[2].direction = x
  BY DEF DirectionsOf
<1>2. ASSUME NEW d \in D, d[2].direction = x
      PROVE  \E i \in 1 .. Len(edges), p \in ContractPayloads : Declares(edges, i, p, g) /\ p.direction = x
  <2>1. d[1] \in 1 .. Len(edges) /\ d[2] \in ContractPayloads /\ Declares(edges, d[1], d[2], g)
    BY DeclaredPairs
  <2> HIDE DEF D
  <2> QED
    BY <1>2, <2>1
<1>3. ASSUME NEW i \in 1 .. Len(edges), NEW p \in ContractPayloads, Declares(edges, i, p, g), p.direction = x
      PROVE  \E d \in D : d[2].direction = x
  <2>1. PICK d \in D : d[1] = i /\ d[2] = p
    BY <1>3, DeclaredPairs
  <2> QED
    BY <1>3, <2>1
<1> QED
  BY <1>1, <1>2, <1>3

LEMMA EntryIsRight ==
  ASSUME edges \in Seq(Composed), ContractsIn(edges, contracts, Len(edges)), NEW g \in DOMAIN contracts
  PROVE  /\ contracts[g].directions = DirectionsOf(g)
         /\ contracts[g].lifecycle \in Lifecycles
         /\ contracts[g].lifecycle = "active" <=>
              \A d \in Declarations(edges, g) : edges[d[1]].lifecycle = "active"
<1>1. EntryOK(edges, contracts[g], Len(edges), g)
  BY DEF ContractsIn
<1>2. /\ \A d \in Declarations(edges, g) :
           /\ d[1] \in 1 .. Len(edges) /\ d[2] \in ContractPayloads
           /\ Declares(edges, d[1], d[2], g)
      /\ \A i \in 1 .. Len(edges), p \in ContractPayloads :
           Declares(edges, i, p, g) => \E d \in Declarations(edges, g) : d[1] = i /\ d[2] = p
  BY DeclaredPairs
<1>3. \A x : x \in DirectionsOf(g) <=>
        \E i \in 1 .. Len(edges), p \in ContractPayloads : Declares(edges, i, p, g) /\ p.direction = x
  BY DirectionsAre
<1>4. \A x : x \in contracts[g].directions <=> x \in DirectionsOf(g)
  BY <1>1, <1>3 DEF EntryOK
<1>5. (\A d \in Declarations(edges, g) : edges[d[1]].lifecycle = "active") <=>
        \A i \in 1 .. Len(edges) : (\E p \in ContractPayloads : Declares(edges, i, p, g)) => edges[i].lifecycle = "active"
  BY <1>2
<1>6. contracts[g].directions = DirectionsOf(g)
  <2>1. /\ contracts[g].directions \subseteq DirectionsOf(g)
        /\ DirectionsOf(g) \subseteq contracts[g].directions
    BY <1>4
  <2> QED
    BY <2>1
<1> QED
  BY <1>1, <1>5, <1>6 DEF EntryOK

LEMMA OwnGroup ==
  ASSUME edges \in Seq(Composed), ContractsIn(edges, contracts, Len(edges)),
         NEW i \in DOMAIN edges, NEW p \in Payloads(edges[i])
  PROVE  Group(edges, i, p) \in DOMAIN contracts /\ p.direction \in DirectionsOf(Group(edges, i, p))
<1>1. i \in 1 .. Len(edges) /\ edges[i] \in Composed
  BY LenProperties, ElementOfSeq
<1>2. p \in ContractPayloads /\ Declares(edges, i, p, Group(edges, i, p))
  BY <1>1, OnePayload DEF Declares
<1> DEFINE g == Group(edges, i, p)
<1> HIDE DEF g
<1>3. g \in DOMAIN contracts
  BY <1>1, <1>2 DEF ContractsIn, g
<1>4. <<i, p>> \in Declarations(edges, g)
  BY <1>1, <1>2, DeclarationsAre DEF g
<1> QED
  BY <1>3, <1>4 DEF g, DirectionsOf

\* A verdict of the default gate: a live contract that is one-sided or broken.
LEMMA ClassifyIs ==
  ASSUME NEW c, NEW protocol, c.lifecycle \in Lifecycles
  PROVE  /\ Classify(protocol, c) \in SafeDefault <=>
              /\ c.lifecycle = "active"
              /\ ~({"produces", "consumes"} \subseteq c.directions) \/ Missing(protocol, c) # {}
         /\ c.lifecycle = "active" /\ "produces" \in c.directions =>
              (Classify(protocol, c) = "undeclared_producer" <=> "consumes" \notin c.directions)
<1>1. CASE c.lifecycle # "active"
  BY <1>1 DEF Classify, Lifecycles, SafeDefault
<1>2. CASE c.lifecycle = "active" /\ {"produces", "consumes"} \subseteq c.directions
  BY <1>2 DEF Classify, SafeDefault
<1>3. CASE c.lifecycle = "active" /\ ~({"produces", "consumes"} \subseteq c.directions)
  BY <1>3 DEF Classify, SafeDefault
<1> QED
  BY <1>1, <1>2, <1>3

\* The sweep: a producer whose group nobody consumes.
LEMMA UndeclaredIs ==
  ASSUME edges \in Seq(Composed), NEW i \in DOMAIN edges
  PROVE  Undeclared(edges, i) <=>
           \E p \in Payloads(edges[i]) : /\ p.protocol = "amqp" /\ p.direction = "produces"
                                         /\ "consumes" \notin DirectionsOf(Group(edges, i, p))
<1>1. DOMAIN edges = 1 .. Len(edges)
  BY LenProperties
<1>2. \A j \in DOMAIN edges : edges[j] \in Composed
  BY ElementOfSeq
<1>3. \A g : g \in ConsumedGroups(edges) <=> "consumes" \in DirectionsOf(g)
  <2> TAKE g
  <2>1. g \in ConsumedGroups(edges) <=>
          \E j \in DOMAIN edges : \E p \in Payloads(edges[j]) : p.direction = "consumes" /\ Group(edges, j, p) = g
    BY DEF ConsumedGroups, Group
  <2>2. "consumes" \in DirectionsOf(g) <=>
          \E j \in 1 .. Len(edges), p \in ContractPayloads : Declares(edges, j, p, g) /\ p.direction = "consumes"
    <3>1. \A x : x \in DirectionsOf(g) <=>
            \E j \in 1 .. Len(edges), p \in ContractPayloads : Declares(edges, j, p, g) /\ p.direction = x
      BY DirectionsAre
    <3> QED
      BY <3>1
  <2>3. \A j \in DOMAIN edges : Payloads(edges[j]) \subseteq ContractPayloads
    BY <1>2, OnePayload
  <2> QED
    BY <1>1, <2>1, <2>2, <2>3 DEF Declares
<1>4. \A p : p \in Payloads(edges[i]) /\ p.protocol = "amqp" <=> p \in edges[i].contract /\ p.protocol = "amqp"
  BY DEF Payloads
<1> QED
  BY <1>3, <1>4 DEF Undeclared, Group

LEMMA ExportedIs ==
  ASSUME NEW dst \in [repo : Repos, ref : Refs], exports \in Seq(Exports)
  PROVE  dst \in IdsIn(exports, Len(exports)) <=>
           \E k \in DOMAIN exports : exports[k].repo = dst.repo /\ dst.ref \in DOMAIN exports[k].nodes
<1>1. DOMAIN exports = 1 .. Len(exports)
  BY LenProperties
<1>2. dst \in IdsIn(exports, Len(exports)) <=> \E k \in DOMAIN exports : dst \in IdsOf(exports[k])
  BY <1>1 DEF IdsIn
<1>3. \A k : dst \in IdsOf(exports[k]) <=>
               exports[k].repo = dst.repo /\ dst.ref \in DOMAIN exports[k].nodes
  BY DEF IdsOf, Id
<1> QED
  BY <1>2, <1>3

LEMMA Finished ==
  ASSUME FedInv, Reconciled
  PROVE  /\ exports \in Seq(Exports) /\ edges \in Seq(Composed) /\ Loaded /\ SweptAll
         /\ ContractsIn(edges, contracts, Len(edges)) /\ Judged /\ Decided
  BY DEF FedInv, FedPhases, Reconciled

LEMMA GateIsRight == FedInv => GateFailsForBreaks
<1> DEFINE Exported(dst) == \E k \in DOMAIN exports :
                              exports[k].repo = dst.repo /\ dst.ref \in DOMAIN exports[k].nodes
           Lost(i) == edges[i].lifecycle = "active" /\ ~ Exported(edges[i].dst)
           Live(g) == \A d \in Declarations(edges, g) : edges[d[1]].lifecycle = "active"
           Broken(g) == ~ ({"produces", "consumes"} \subseteq DirectionsOf(g))
                          \/ Missing(g[2][1], contracts[g]) # {}
           Unheard(i) == \E p \in Payloads(edges[i]) :
                           /\ Key(p)[1] = "amqp" /\ Side(p)
                           /\ "consumes" \notin DirectionsOf(Group(edges, i, p))
           Bad == \/ \E i \in DOMAIN edges : Lost(i) \/ Unheard(i)
                  \/ \E g \in DOMAIN contracts : Live(g) /\ Broken(g)
<1> SUFFICES ASSUME FedInv, Reconciled, failOn = {"default"} PROVE exit = "failed" <=> Bad
  BY DEF GateFailsForBreaks, DirectionsOf
<1>1. /\ exports \in Seq(Exports) /\ edges \in Seq(Composed) /\ Loaded /\ SweptAll
      /\ ContractsIn(edges, contracts, Len(edges)) /\ Judged /\ Decided
  BY Finished
<1>2. exit = "failed" <=> GateFailures(verdicts, contracts, SafeDefault) # {}
  BY <1>1 DEF Decided
<1>3. GateFailures(verdicts, contracts, SafeDefault) # {} <=>
        \/ \E i \in DOMAIN edges : verdicts[i] \in SafeDefault
        \/ \E g \in DOMAIN contracts : contracts[g].verdict \in SafeDefault
  <2> DEFINE V == {<<"edge", i, verdicts[i]>> : i \in {j \in DOMAIN verdicts : verdicts[j] \in SafeDefault}}
             C == {<<"contract", g, contracts[g].verdict>> :
                     g \in {h \in DOMAIN contracts : contracts[h].verdict \in SafeDefault}}
  <2>1. GateFailures(verdicts, contracts, SafeDefault) = V \cup C
    BY DEF GateFailures
  <2>2. V # {} <=> \E i \in DOMAIN verdicts : verdicts[i] \in SafeDefault
    OBVIOUS
  <2>3. C # {} <=> \E g \in DOMAIN contracts : contracts[g].verdict \in SafeDefault
    OBVIOUS
  <2>4. DOMAIN verdicts = DOMAIN edges
    BY <1>1 DEF SweptAll
  <2> HIDE DEF V, C
  <2> QED
    BY <2>1, <2>2, <2>3, <2>4
<1>4. ASSUME NEW i \in DOMAIN edges
      PROVE  verdicts[i] \in SafeDefault <=> Lost(i) \/ Unheard(i)
  <2>1. edges[i] \in Composed
    BY <1>1, ElementOfSeq
  <2>2. edges[i].dst \in [repo : Repos, ref : Refs]
    BY <2>1 DEF Composed
  <2>3. edges[i].dst \in DOMAIN nodes <=> Exported(edges[i].dst)
    BY <1>1, <2>2, ExportedIs DEF Loaded
  <2> HIDE DEF Exported
  <2>4. EdgeVerdict(edges[i], nodes) \in SafeDefault <=> Lost(i)
    BY <2>1, <2>3, VerdictIs
  <2>5. Undeclared(edges, i) <=> Unheard(i)
    BY <1>1, UndeclaredIs DEF Key, Side
  <2> HIDE DEF Lost, Unheard
  <2>6. verdicts[i] = IF Undeclared(edges, i) THEN "undeclared" ELSE EdgeVerdict(edges[i], nodes)
    BY <1>1 DEF SweptAll
  <2>7. "undeclared" \in SafeDefault
    BY DEF SafeDefault
  <2> QED
    BY <2>4, <2>5, <2>6, <2>7
<1>5. ASSUME NEW g \in DOMAIN contracts
      PROVE  contracts[g].verdict \in SafeDefault <=> Live(g) /\ Broken(g)
  <2>1. contracts[g].verdict = Classify(g[2][1], contracts[g])
    BY <1>1 DEF Judged
  <2>2. /\ contracts[g].directions = DirectionsOf(g) /\ contracts[g].lifecycle \in Lifecycles
        /\ contracts[g].lifecycle = "active" <=> Live(g)
    BY <1>1, EntryIsRight
  <2> HIDE DEF Live
  <2> QED
    BY <2>1, <2>2, ClassifyIs
<1> HIDE DEF Lost, Unheard, Live, Broken
<1>6. Bad <=> \/ \E i \in DOMAIN edges : verdicts[i] \in SafeDefault
              \/ \E g \in DOMAIN contracts : contracts[g].verdict \in SafeDefault
  BY <1>4, <1>5
<1> QED
  BY <1>2, <1>3, <1>6

LEMMA SweepsAgree == FedInv => LiveVerdictsAgree
<1> SUFFICES ASSUME FedInv, Reconciled, NEW i \in DOMAIN edges, NEW p \in Payloads(edges[i]),
                    p.protocol = "amqp", contracts[Group(edges, i, p)].lifecycle = "active"
             PROVE  verdicts[i] = "undeclared" <=>
                      Side(p) /\ contracts[Group(edges, i, p)].verdict = "undeclared_producer"
  BY DEF LiveVerdictsAgree
<1> DEFINE g == Group(edges, i, p)
<1>1. /\ exports \in Seq(Exports) /\ edges \in Seq(Composed) /\ Loaded /\ SweptAll
      /\ ContractsIn(edges, contracts, Len(edges)) /\ Judged
  BY Finished
<1>2. edges[i] \in Composed
  BY <1>1, ElementOfSeq
<1>3. verdicts[i] = "undeclared" <=> Undeclared(edges, i)
  <2>1. EdgeVerdict(edges[i], nodes) # "undeclared"
    BY <1>2, VerdictIs DEF EdgeVerdicts
  <2> QED
    BY <1>1, <2>1 DEF SweptAll
<1>4. Undeclared(edges, i) <=> Side(p) /\ "consumes" \notin DirectionsOf(g)
  BY <1>1, <1>2, UndeclaredIs, OnePayload DEF Side
<1>5. g \in DOMAIN contracts /\ p.direction \in DirectionsOf(g)
  BY <1>1, OwnGroup
<1> HIDE DEF g
<1>6. /\ contracts[g].directions = DirectionsOf(g) /\ contracts[g].lifecycle \in Lifecycles
      /\ contracts[g].verdict = Classify(g[2][1], contracts[g])
  BY <1>1, <1>5, EntryIsRight DEF Judged
<1>7. contracts[g].lifecycle = "active"
  BY DEF g
<1>8. Side(p) => (contracts[g].verdict = "undeclared_producer" <=> "consumes" \notin DirectionsOf(g))
  BY <1>5, <1>6, <1>7, ClassifyIs DEF Side
<1>9. verdicts[i] = "undeclared" <=> Side(p) /\ contracts[g].verdict = "undeclared_producer"
  BY <1>3, <1>4, <1>8
<1> QED
  BY <1>9 DEF g

\* Whatever the satellites export, the default gate of `beadloom federate` fails exactly for
\* what their declarations call a break, and the two sweeps agree on live contracts
\* (aggregate_exports, reconcile_contracts and the gate of federation.py).
THEOREM VerdictsAlwaysTrue == Spec => []VerdictsAreTrue
<1>1. Init => FedInv
  BY FedInitial
<1>2. FedInv /\ [Next]_vars => FedInv'
  BY FedStep
<1>3. FedInv => VerdictsAreTrue
  BY GateIsRight, SweepsAgree DEF VerdictsAreTrue
<1> QED
  BY <1>1, <1>2, <1>3, PTL DEF Spec

-----------------------------------------------------------------------------
(* What a contract is follows from its declarations, whatever their order. *)

\* The declarations of a group by the first n edges.
Upto(n, g) == {d \in Declarations(edges, g) : d[1] <= n}

LatestFields(fs, D) ==
  /\ fs = [f \in DOMAIN fs |-> fs[f]]
  /\ \A f : f \in DOMAIN fs <=> \E d \in D : f \in DOMAIN d[2].fields
  /\ \A f \in DOMAIN fs : \E d \in Latest({e \in D : f \in DOMAIN e[2].fields}) : fs[f] = d[2].fields[f]

LatestBody(b, D) ==
  \/ b = {} /\ \A d \in D : d[2].body = {}
  \/ \E d \in Latest({e \in D : e[2].body # {}}) : b = d[2].body

\* The lifecycle of a contract is a most significant one.
TopLifecycle(l, Ls) == l \in {"active"} \cup Ls /\ \A k \in Ls : Significance[k] <= Significance[l]

Summed(c, D) ==
  /\ TopLifecycle(c.lifecycle, {edges[d[1]].lifecycle : d \in D})
  /\ c.directions = {d[2].direction : d \in D}
  /\ c.exposed = UNION {d[2].exposed : d \in D} /\ c.references = UNION {d[2].references : d \in D}
  /\ LatestFields(c.exposedFields, Made(D, TRUE)) /\ LatestFields(c.referencedFields, Made(D, FALSE))
  /\ LatestBody(c.exposedBody, Made(D, TRUE)) /\ LatestBody(c.referencedBody, Made(D, FALSE))

\* A declaration behind all others is the latest where it says something, and
\* changes nothing where it does not.
LEMMA LastIsLatest ==
  ASSUME NEW D, NEW n \in Nat, \A d \in D : d[1] \in Nat /\ d[1] <= n, NEW x, x[1] = n + 1
  PROVE  x \in Latest(D \cup {x})
  BY DEF Latest

LEMMA FieldsGrow ==
  ASSUME NEW D, NEW n \in Nat, \A d \in D : d[1] \in Nat /\ d[1] <= n,
         NEW p, NEW fs, LatestFields(fs, D)
  PROVE  LatestFields(Merged(fs, p.fields), D \cup {<<n + 1, p>>})
<1> DEFINE x == <<n + 1, p>>
           E == D \cup {x}
           new == Merged(fs, p.fields)
           Saying(B, f) == {e \in B : f \in DOMAIN e[2].fields}
<1>1. x[1] = n + 1 /\ x[2] = p
  OBVIOUS
<1> HIDE DEF x
<1>2. /\ new = [f \in DOMAIN new |-> new[f]]
      /\ \A f : f \in DOMAIN new <=> f \in DOMAIN fs \/ f \in DOMAIN p.fields
      /\ \A f \in DOMAIN new : new[f] = IF f \in DOMAIN p.fields THEN p.fields[f] ELSE fs[f]
  BY DEF Merged
<1> HIDE DEF new
<1>3. \A f : f \in DOMAIN new <=> \E d \in E : f \in DOMAIN d[2].fields
  BY <1>1, <1>2 DEF LatestFields
<1>4. ASSUME NEW f \in DOMAIN new, f \in DOMAIN p.fields
      PROVE  \E d \in Latest(Saying(E, f)) : new[f] = d[2].fields[f]
  <2>1. Saying(E, f) = Saying(D, f) \cup {x}
    BY <1>1, <1>4
  <2>2. x \in Latest(Saying(E, f))
    <3> DEFINE B == Saying(D, f)
    <3>1. \A d \in B : d[1] \in Nat /\ d[1] <= n
      OBVIOUS
    <3> HIDE DEF B
    <3>2. x \in Latest(B \cup {x})
      BY <1>1, <3>1, LastIsLatest
    <3> QED
      BY <2>1, <3>2 DEF B
  <2> QED
    BY <1>1, <1>2, <1>4, <2>2
<1>5. ASSUME NEW f \in DOMAIN new, f \notin DOMAIN p.fields
      PROVE  \E d \in Latest(Saying(E, f)) : new[f] = d[2].fields[f]
  <2>1. Saying(E, f) = Saying(D, f)
    BY <1>1, <1>5
  <2>2. f \in DOMAIN fs /\ new[f] = fs[f]
    BY <1>2, <1>5
  <2>3. \E d \in Latest(Saying(D, f)) : fs[f] = d[2].fields[f]
    BY <2>2 DEF LatestFields
  <2> QED
    BY <2>1, <2>2, <2>3
<1> QED
  BY <1>2, <1>3, <1>4, <1>5 DEF LatestFields, new, x

LEMMA BodyGrows ==
  ASSUME NEW D, NEW n \in Nat, \A d \in D : d[1] \in Nat /\ d[1] <= n,
         NEW p, NEW b, LatestBody(b, D)
  PROVE  LatestBody(LastBody(b, p.body), D \cup {<<n + 1, p>>})
<1> DEFINE x == <<n + 1, p>>
           E == D \cup {x}
           Saying(B) == {e \in B : e[2].body # {}}
<1>1. x[1] = n + 1 /\ x[2] = p
  OBVIOUS
<1> HIDE DEF x
<1>2. CASE p.body # {}
  <2>1. Saying(E) = Saying(D) \cup {x}
    BY <1>1, <1>2
  <2>2. x \in Latest(Saying(E))
    <3> DEFINE B == Saying(D)
    <3>1. \A d \in B : d[1] \in Nat /\ d[1] <= n
      OBVIOUS
    <3> HIDE DEF B
    <3>2. x \in Latest(B \cup {x})
      BY <1>1, <3>1, LastIsLatest
    <3> QED
      BY <2>1, <3>2 DEF B
  <2>3. LastBody(b, p.body) = x[2].body
    BY <1>1, <1>2 DEF LastBody
  <2> QED
    BY <2>2, <2>3 DEF LatestBody, x
<1>3. CASE p.body = {}
  <2>1. Saying(E) = Saying(D)
    BY <1>1, <1>3
  <2>2. LastBody(b, p.body) = b
    BY <1>3 DEF LastBody
  <2>3. (\A d \in D : d[2].body = {}) => \A d \in E : d[2].body = {}
    BY <1>1, <1>3
  <2> QED
    BY <2>1, <2>2, <2>3 DEF LatestBody, x
<1> QED
  BY <1>2, <1>3

\* The entry of a group after one more edge that declares it.
LEMMA SummedGrows ==
  ASSUME NEW D, NEW n \in Nat, \A d \in D : d[1] \in Nat /\ d[1] <= n,
         \A d \in D : edges[d[1]].lifecycle \in Lifecycles,
         NEW edge, edge = edges[n + 1], edge.lifecycle \in Lifecycles,
         NEW p \in ContractPayloads, NEW c, DOMAIN c = ContractFields, Summed(c, D)
  PROVE  Summed(Accumulated(c, edge, p), D \cup {<<n + 1, p>>})
<1> DEFINE x == <<n + 1, p>>
           E == D \cup {x}
           a == Accumulated(c, edge, p)
           produced == p.direction = "produces"
<1>1. /\ a.directions = c.directions \cup {p.direction}
      /\ a.lifecycle = MoreSignificant(c.lifecycle, edge.lifecycle)
      /\ a.exposed = c.exposed \cup p.exposed
      /\ a.references = c.references \cup p.references
      /\ a.exposedFields = IF produced THEN Merged(c.exposedFields, p.fields) ELSE c.exposedFields
      /\ a.referencedFields = IF produced THEN c.referencedFields ELSE Merged(c.referencedFields, p.fields)
      /\ a.exposedBody = IF produced THEN LastBody(c.exposedBody, p.body) ELSE c.exposedBody
      /\ a.referencedBody = IF produced THEN c.referencedBody ELSE LastBody(c.referencedBody, p.body)
  BY DEF Accumulated, ContractFields
<1>2. x[1] = n + 1 /\ x[2] = p
  OBVIOUS
<1> HIDE DEF a, x
<1>3. TopLifecycle(a.lifecycle, {edges[d[1]].lifecycle : d \in E})
  <2> DEFINE Ls == {edges[d[1]].lifecycle : d \in D}
             Ks == {edges[d[1]].lifecycle : d \in E}
  <2>1. Ks = Ls \cup {edge.lifecycle}
    BY <1>2
  <2>2. Ls \subseteq Lifecycles /\ TopLifecycle(c.lifecycle, Ls)
    BY DEF Summed
  <2> HIDE DEF Ls, Ks
  <2>3. c.lifecycle \in Lifecycles
    BY <2>2 DEF TopLifecycle, Lifecycles
  <2>4. \A l \in Lifecycles : Significance[l] \in 1 .. 5
    BY DEF Lifecycles, Significance
  <2>5. TopLifecycle(MoreSignificant(c.lifecycle, edge.lifecycle), Ls \cup {edge.lifecycle})
    BY <2>2, <2>3, <2>4 DEF TopLifecycle, MoreSignificant
  <2> QED
    BY <1>1, <2>1, <2>5 DEF Ks
<1>4. a.directions = {d[2].direction : d \in E}
  BY <1>1, <1>2 DEF Summed
<1>5. a.exposed = UNION {d[2].exposed : d \in E}
  <2>1. c.exposed = UNION {d[2].exposed : d \in D}
    BY DEF Summed
  <2> QED
    BY <1>1, <1>2, <2>1
<1>6. a.references = UNION {d[2].references : d \in E}
  <2>1. c.references = UNION {d[2].references : d \in D}
    BY DEF Summed
  <2> QED
    BY <1>1, <1>2, <2>1
<1>7. \A s \in BOOLEAN : /\ Side(p) = s => Made(E, s) = Made(D, s) \cup {x}
                         /\ Side(p) # s => Made(E, s) = Made(D, s)
                         /\ \A d \in Made(D, s) : d[1] \in Nat /\ d[1] <= n
  BY <1>2 DEF Made
<1>8. \A fs, s : s \in BOOLEAN /\ LatestFields(fs, Made(D, s)) =>
        LatestFields(Merged(fs, p.fields), Made(D, s) \cup {x})
  <2> SUFFICES ASSUME NEW fs, NEW s \in BOOLEAN, LatestFields(fs, Made(D, s))
               PROVE  LatestFields(Merged(fs, p.fields), Made(D, s) \cup {x})
    OBVIOUS
  <2> QED
    BY <1>7, FieldsGrow DEF x
<1>9. \A b, s : s \in BOOLEAN /\ LatestBody(b, Made(D, s)) =>
        LatestBody(LastBody(b, p.body), Made(D, s) \cup {x})
  <2> SUFFICES ASSUME NEW b, NEW s \in BOOLEAN, LatestBody(b, Made(D, s))
               PROVE  LatestBody(LastBody(b, p.body), Made(D, s) \cup {x})
    OBVIOUS
  <2> QED
    BY <1>7, BodyGrows DEF x
<1>10. /\ LatestFields(c.exposedFields, Made(D, TRUE)) /\ LatestFields(c.referencedFields, Made(D, FALSE))
       /\ LatestBody(c.exposedBody, Made(D, TRUE)) /\ LatestBody(c.referencedBody, Made(D, FALSE))
  BY DEF Summed
<1>11. /\ LatestFields(a.exposedFields, Made(E, TRUE)) /\ LatestFields(a.referencedFields, Made(E, FALSE))
       /\ LatestBody(a.exposedBody, Made(E, TRUE)) /\ LatestBody(a.referencedBody, Made(E, FALSE))
  <2> HIDE DEF E
  <2>1. CASE produced
    <3>1. Side(p) = TRUE
      BY <2>1 DEF Side
    <3>2. Made(E, TRUE) = Made(D, TRUE) \cup {x} /\ Made(E, FALSE) = Made(D, FALSE)
      BY <3>1, <1>7
    <3>3. /\ LatestFields(Merged(c.exposedFields, p.fields), Made(D, TRUE) \cup {x})
          /\ LatestBody(LastBody(c.exposedBody, p.body), Made(D, TRUE) \cup {x})
      BY <1>8, <1>9, <1>10
    <3>4. /\ a.exposedFields = Merged(c.exposedFields, p.fields) /\ a.referencedFields = c.referencedFields
          /\ a.exposedBody = LastBody(c.exposedBody, p.body) /\ a.referencedBody = c.referencedBody
      BY <1>1, <2>1
    <3> QED
      BY <1>10, <3>2, <3>3, <3>4
  <2>2. CASE ~produced
    <3>1. Side(p) = FALSE
      BY <2>2 DEF Side
    <3>2. Made(E, TRUE) = Made(D, TRUE) /\ Made(E, FALSE) = Made(D, FALSE) \cup {x}
      BY <3>1, <1>7
    <3>3. /\ LatestFields(Merged(c.referencedFields, p.fields), Made(D, FALSE) \cup {x})
          /\ LatestBody(LastBody(c.referencedBody, p.body), Made(D, FALSE) \cup {x})
      BY <1>8, <1>9, <1>10
    <3>4. /\ a.referencedFields = Merged(c.referencedFields, p.fields) /\ a.exposedFields = c.exposedFields
          /\ a.referencedBody = LastBody(c.referencedBody, p.body) /\ a.exposedBody = c.exposedBody
      BY <1>1, <2>2
    <3> QED
      BY <1>10, <3>2, <3>3, <3>4
  <2> QED
    BY <2>1, <2>2
<1> QED
  BY <1>3, <1>4, <1>5, <1>6, <1>11 DEF Summed, x, a

\* What is known of the entries of contracts in each phase.
AllSummed(cs, n) == \A g \in DOMAIN cs : Summed(cs[g], Upto(n, g))

SumInv ==
  /\ phase = "contracts" => AllSummed(contracts, next - 1)
  /\ phase \in {"classify", "sweep", "gate", "done"} => AllSummed(contracts, Len(edges))

LEMMA UptoPairs ==
  ASSUME edges \in Seq(Composed), NEW n \in Nat, n <= Len(edges), NEW g
  PROVE  /\ \A d \in Upto(n, g) : /\ d[1] \in 1 .. Len(edges) /\ d[1] <= n /\ d[2] \in ContractPayloads
                                  /\ Declares(edges, d[1], d[2], g)
                                  /\ edges[d[1]].lifecycle \in Lifecycles
         /\ \A d : d \in Upto(n, g) <=>
              \E i \in 1 .. n, p \in ContractPayloads : d = <<i, p>> /\ Declares(edges, i, p, g)
<1>1. Len(edges) \in Nat /\ DOMAIN edges = 1 .. Len(edges)
  BY LenProperties
<1>2. \A d : d \in Declarations(edges, g) <=>
        \E i \in 1 .. Len(edges), p \in ContractPayloads : d = <<i, p>> /\ Declares(edges, i, p, g)
  BY DeclarationsAre
<1>3. \A d : d \in Upto(n, g) <=>
        \E i \in 1 .. n, p \in ContractPayloads : d = <<i, p>> /\ Declares(edges, i, p, g)
  BY <1>1, <1>2 DEF Upto
<1>4. \A i \in 1 .. Len(edges) : edges[i].lifecycle \in Lifecycles
  <2>1. \A i \in 1 .. Len(edges) : edges[i] \in Composed
    BY <1>1, ElementOfSeq
  <2> QED
    BY <2>1 DEF Composed
<1>5. ASSUME NEW d \in Upto(n, g)
      PROVE  /\ d[1] \in 1 .. Len(edges) /\ d[1] <= n /\ d[2] \in ContractPayloads
             /\ Declares(edges, d[1], d[2], g)
  BY <1>5, DeclaredPairs DEF Upto
<1> QED
  BY <1>3, <1>4, <1>5

LEMMA NothingSummed == Summed(NewContract, {})
<1>1. \A s : Made({}, s) = {}
  BY DEF Made
<1>2. LatestFields(EmptySurface, {}) /\ LatestBody({}, {})
  BY DEF LatestFields, LatestBody, EmptySurface
<1>3. TopLifecycle("active", {edges[d[1]].lifecycle : d \in {}})
  BY DEF TopLifecycle
<1> QED
  BY <1>1, <1>2, <1>3 DEF Summed, NewContract

LEMMA SumsOnReconcile ==
  ASSUME FedInv, SumInv, Reconcile
  PROVE  SumInv'
<1> DEFINE edge == edges[next]
           n == next - 1
<1>1. /\ phase = "contracts" /\ phase' = phase /\ next <= Len(edges) /\ next' = next + 1 /\ edges' = edges
      /\ contracts' = Folded(contracts, edge, CrossLandscapeKeys(edges))
  BY DEF Reconcile, Looping
<1>2. /\ next \in 1 .. Len(edges) + 1 /\ ContractsIn(edges, contracts, n) /\ AllSummed(contracts, n)
      /\ edges \in Seq(Composed) /\ Len(edges) \in Nat
  BY <1>1, LenProperties DEF FedInv, FedPhases, SumInv
<1>3. n \in Nat /\ next = n + 1 /\ n + 1 <= Len(edges)
  BY <1>1, <1>2
<1>4. edge \in Composed /\ edge.lifecycle \in Lifecycles
  <2>1. edge \in Composed
    BY <1>1, <1>2, ElementOfSeq
  <2> QED
    BY <2>1 DEF Composed
<1> HIDE DEF n, edge
<1>5. \A i : i \in 1 .. (n + 1) <=> i \in 1 .. n \/ i = n + 1
  BY <1>3
<1>6. \A g, d : d \in Upto(n, g) <=>
        \E i \in 1 .. n, p \in ContractPayloads : d = <<i, p>> /\ Declares(edges, i, p, g)
  BY <1>2, <1>3, UptoPairs
<1>7. \A g, d : d \in Upto(n + 1, g) <=>
        \E i \in 1 .. (n + 1), p \in ContractPayloads : d = <<i, p>> /\ Declares(edges, i, p, g)
  <2>1. n + 1 \in Nat
    BY <1>3
  <2> QED
    BY <1>2, <1>3, <2>1, UptoPairs
<1>8. ASSUME NEW g, \A p \in ContractPayloads : ~Declares(edges, n + 1, p, g)
      PROVE  Upto(n + 1, g) = Upto(n, g)
  <2>1. \A d : d \in Upto(n + 1, g) <=> d \in Upto(n, g)
    BY <1>5, <1>6, <1>7, <1>8
  <2> QED
    BY <2>1
<1>9. edge = edges[n + 1]
  BY <1>3 DEF edge
<1>10. AllSummed(contracts', n + 1)
  <2>1. CASE Payloads(edge) = {}
    <3>1. DOMAIN contracts' = DOMAIN contracts /\ \A g \in DOMAIN contracts : contracts'[g] = contracts[g]
      BY <1>1, <2>1, FoldedNothing
    <3>2. \A g : Upto(n + 1, g) = Upto(n, g)
      BY <1>8, <1>9, <2>1 DEF Declares
    <3> QED
      BY <1>2, <3>1, <3>2 DEF AllSummed
  <2>2. CASE Payloads(edge) # {}
    <3>1. PICK p \in Payloads(edge) : TRUE
      BY <2>2
    <3> DEFINE g0 == Group(edges, n + 1, p)
               c0 == EntryFor(contracts, g0)
    <3>2. g0 = GroupKey(edge, p, CrossLandscapeKeys(edges))
      BY <1>9 DEF Group
    <3>3. p \in ContractPayloads /\ Declares(edges, n + 1, p, g0)
      BY <1>4, <1>9, <3>1, OnePayload DEF Declares
    <3>4. \A q, g : Declares(edges, n + 1, q, g) => q = p /\ g = g0
      BY <1>4, <1>9, <3>1, OnePayload DEF Declares
    <3> HIDE DEF g0
    <3>5. PutTo(contracts', contracts, g0, Accumulated(c0, edge, p))
      BY <1>1, <1>4, <3>2, FoldedIs
    <3>6. DOMAIN c0 = ContractFields /\ Summed(c0, Upto(n, g0))
      <4>1. CASE g0 \in DOMAIN contracts
        BY <1>2, <4>1 DEF EntryFor, AllSummed, ContractsIn, EntryOK
      <4>2. CASE g0 \notin DOMAIN contracts
        <5>1. Upto(n, g0) = {}
          BY <1>2, <1>6, <4>2 DEF ContractsIn
        <5>2. c0 = NewContract
          BY <4>2 DEF EntryFor
        <5> QED
          BY <5>1, <5>2, NothingSummed DEF NewContract, ContractFields
      <4> QED
        BY <4>1, <4>2
    <3> HIDE DEF c0
    <3>7. Upto(n + 1, g0) = Upto(n, g0) \cup {<<n + 1, p>>}
      BY <1>5, <1>6, <1>7, <3>3, <3>4
    <3>8. Summed(contracts'[g0], Upto(n + 1, g0))
      <4> DEFINE D == Upto(n, g0)
      <4>1. n <= Len(edges)
        BY <1>2, <1>3
      <4>2. \A d \in D : d[1] \in Nat /\ d[1] <= n /\ edges[d[1]].lifecycle \in Lifecycles
        BY <1>2, <1>3, <4>1, UptoPairs
      <4> HIDE DEF D
      <4>3. Summed(Accumulated(c0, edge, p), D \cup {<<n + 1, p>>})
        BY <1>3, <1>4, <1>9, <3>3, <3>6, <4>2, SummedGrows DEF D
      <4> QED
        BY <3>5, <3>7, <4>3 DEF PutTo, D
    <3>9. ASSUME NEW g \in DOMAIN contracts', g # g0 PROVE Summed(contracts'[g], Upto(n + 1, g))
      <4>1. g \in DOMAIN contracts /\ contracts'[g] = contracts[g]
        BY <3>5, <3>9 DEF PutTo
      <4>2. Upto(n + 1, g) = Upto(n, g)
        BY <1>8, <3>4, <3>9
      <4> QED
        BY <1>2, <4>1, <4>2 DEF AllSummed
    <3> QED
      BY <3>8, <3>9 DEF AllSummed
  <2> QED
    BY <2>1, <2>2
<1>11. \A m, g : Upto(m, g)' = Upto(m, g)
  BY <1>1 DEF Upto, Declarations, Group
<1>12. AllSummed(contracts, next - 1)'
  <2>1. next' - 1 = n + 1
    BY <1>1, <1>3
  <2>2. \A c, D : Summed(c, D)' = Summed(c, D)
    BY <1>1 DEF Summed
  <2> QED
    BY <1>10, <1>11, <2>1, <2>2 DEF AllSummed
<1> QED
  BY <1>1, <1>12 DEF SumInv

LEMMA SumsOnClassify ==
  ASSUME FedInv, SumInv, ClassifyAll
  PROVE  SumInv'
<1>1. /\ phase = "classify" /\ phase' = "sweep" /\ contracts' = Classified(contracts) /\ edges' = edges
  BY DEF ClassifyAll
<1>2. ContractsIn(edges, contracts, Len(edges)) /\ AllSummed(contracts, Len(edges))
  BY <1>1 DEF FedInv, FedPhases, SumInv
<1>3. ASSUME NEW g \in DOMAIN contracts PROVE Summed(contracts'[g], Upto(Len(edges), g))
  <2> DEFINE c == contracts[g]
             v == Classify(g[2][1], c)
             d == [c EXCEPT !.verdict = v]
  <2>1. contracts'[g] = d
    BY <1>1 DEF Classified
  <2>2. DOMAIN c = ContractFields /\ Summed(c, Upto(Len(edges), g))
    BY <1>2 DEF ContractsIn, EntryOK, AllSummed
  <2> HIDE DEF v, c
  <2>3. /\ d.lifecycle = c.lifecycle /\ d.directions = c.directions
        /\ d.exposedBody = c.exposedBody /\ d.referencedBody = c.referencedBody
        /\ d.exposedFields = c.exposedFields /\ d.referencedFields = c.referencedFields
        /\ d.references = c.references /\ d.exposed = c.exposed
    BY <2>2 DEF ContractFields
  <2> HIDE DEF d
  <2> QED
    BY <2>1, <2>2, <2>3 DEF Summed
<1>4. DOMAIN contracts' = DOMAIN contracts
  BY <1>1 DEF Classified
<1>5. \A m, g : Upto(m, g)' = Upto(m, g)
  BY <1>1 DEF Upto, Declarations, Group
<1>6. \A c, D : Summed(c, D)' = Summed(c, D)
  BY <1>1 DEF Summed
<1>7. AllSummed(contracts, Len(edges))'
  BY <1>1, <1>3, <1>4, <1>5, <1>6 DEF AllSummed
<1> QED
  BY <1>1, <1>7 DEF SumInv

LEMMA SumsStart == Init => SumInv
  BY DEF Init, SumInv

LEMMA SumsStep == FedInv /\ SumInv /\ [Next]_vars => SumInv'
<1> SUFFICES ASSUME FedInv, SumInv, [Next]_vars PROVE SumInv'
  OBVIOUS
<1>1. \A m, g : edges' = edges => Upto(m, g)' = Upto(m, g)
  BY DEF Upto, Declarations, Group
<1>2. \A c, D : edges' = edges => Summed(c, D)' = Summed(c, D)
  BY DEF Summed
<1>3. ASSUME edges' = edges, contracts' = contracts, phase' \in {"classify", "sweep", "gate", "done"},
             AllSummed(contracts, Len(edges))
      PROVE  SumInv'
  BY <1>1, <1>2, <1>3 DEF SumInv, AllSummed
<1>4. ASSUME phase' \notin {"contracts", "classify", "sweep", "gate", "done"} PROVE SumInv'
  BY <1>4 DEF SumInv
<1>5. CASE UNCHANGED vars
  <2>1. UNCHANGED <<phase, next, edges, contracts>>
    BY <1>5 DEF vars
  <2> QED
    BY <1>1, <1>2, <2>1 DEF SumInv, AllSummed
<1>6. CASE TooFew \/ RejectFailOn \/ Unreadable \/ Start
  <2>1. phase' \in {"stopped", "nodes"}
    BY <1>6 DEF TooFew, RejectFailOn, Unreadable, Start, Refuse
  <2> QED
    BY <1>4, <2>1
<1>7. CASE AddNodes \/ AddEdges \/ AssignVerdict
  <2>1. phase' \in {"nodes", "edges", "verdicts"}
    BY <1>7 DEF AddNodes, AddEdges, AssignVerdict, Looping
  <2> QED
    BY <1>4, <2>1
<1>8. CASE NextLoop
  <2>1. /\ phase \in {"nodes", "edges", "verdicts", "contracts"} /\ next' = 1
        /\ phase' = After[phase] /\ edges' = edges /\ contracts' = contracts
        /\ next > (IF phase \in {"nodes", "edges"} THEN Len(exports) ELSE Len(edges))
    BY <1>8 DEF NextLoop, Fed, After
  <2>2. CASE phase \in {"nodes", "edges"}
    BY <1>4, <2>1, <2>2 DEF After
  <2>3. CASE phase = "verdicts"
    BY <2>1, <2>3 DEF After, FedInv, FedPhases, SumInv, AllSummed
  <2>4. CASE phase = "contracts"
    <3>1. next \in 1 .. Len(edges) + 1 /\ Len(edges) \in Nat /\ AllSummed(contracts, next - 1)
      BY <2>4, LenProperties DEF FedInv, FedPhases, SumInv
    <3>2. next - 1 = Len(edges)
      BY <2>1, <2>4, <3>1
    <3> QED
      BY <1>3, <2>1, <2>4, <3>1, <3>2 DEF After
  <2> QED
    BY <2>1, <2>2, <2>3, <2>4
<1>9. CASE Reconcile
  BY <1>9, SumsOnReconcile
<1>10. CASE ClassifyAll
  BY <1>10, SumsOnClassify
<1>11. CASE MarkUndeclared \/ Gate
  <2>1. /\ edges' = edges /\ contracts' = contracts /\ phase \in {"sweep", "gate"} /\ phase' \in {"gate", "done"}
    BY <1>11 DEF MarkUndeclared, Gate, Fed
  <2> QED
    BY <1>3, <2>1 DEF SumInv
<1> QED
  BY <1>5, <1>6, <1>7, <1>8, <1>9, <1>10, <1>11 DEF Next

-----------------------------------------------------------------------------
\* Indexed declarations: one of an edge, and places up to N.
Indexed(D, N) ==
  /\ \A d \in D : d[1] \in 1 .. N
  /\ \A d, e \in D : d[1] = e[1] => d = e

LEMMA LatestExists ==
  ASSUME NEW N \in Nat, NEW S, S # {}, \A d \in S : d[1] \in 1 .. N
  PROVE  Latest(S) # {}
<1> DEFINE T == {N - d[1] : d \in S}
           R == {ss \in Nat \X Nat : ss[1] < ss[2]}
<1>1. T \in SUBSET Nat /\ T # {}
  OBVIOUS
<1>2. IsWellFoundedOn(R, Nat)
  BY NatLessThanWellFounded DEF OpToRel
<1> HIDE DEF R
<1>3. PICK m \in T : \A k \in T : ~(<<k, m>> \in R)
  BY <1>1, <1>2, WFMin
<1> HIDE DEF T
<1>31. \A k \in T : ~(k < m)
  BY <1>1, <1>3 DEF R
<1>4. \A k \in T : m <= k
  BY <1>1, <1>31
<1>5. PICK d \in S : m = N - d[1]
  BY DEF T
<1>6. \A e \in S : e[1] <= d[1]
  <2> TAKE e \in S
  <2>1. m <= N - e[1]
    BY <1>4 DEF T
  <2> QED
    BY <1>5, <2>1
<1> QED
  BY <1>6 DEF Latest

LEMMA LifecycleTogether ==
  ASSUME NEW Ls \in SUBSET Lifecycles, NEW l, TopLifecycle(l, Ls)
  PROVE  l = MostSignificant(Ls)
<1> DEFINE Top(k) == k \in {"active"} \cup Ls /\ \A j \in Ls : Significance[j] <= Significance[k]
           m == CHOOSE k \in {"active"} \cup Ls : \A j \in Ls : Significance[j] <= Significance[k]
<1>1. Top(l)
  BY DEF TopLifecycle
<1>2. Top(m)
  BY <1>1
<1> HIDE DEF m
<1>3. /\ Significance["active"] = 1 /\ Significance["planned"] = 2 /\ Significance["deprecated"] = 3
      /\ Significance["dead"] = 4 /\ Significance["external"] = 5
  BY DEF Significance
<1>4. l = m
  BY <1>1, <1>2, <1>3 DEF Lifecycles
<1> QED
  BY <1>4 DEF m, MostSignificant

LEMMA FieldsTogether ==
  ASSUME NEW D, NEW N, Indexed(D, N), NEW fs, LatestFields(fs, D)
  PROVE  fs = FieldsOf(D)
<1> DEFINE Saying(f) == {e \in D : f \in DOMAIN e[2].fields}
           gs == FieldsOf(D)
<1>1. DOMAIN fs = DOMAIN gs
  BY DEF LatestFields, FieldsOf
<1>2. ASSUME NEW f \in DOMAIN fs PROVE fs[f] = gs[f]
  <2>1. PICK d \in Latest(Saying(f)) : fs[f] = d[2].fields[f]
    BY DEF LatestFields
  <2> DEFINE e == CHOOSE x \in Latest(Saying(f)) : TRUE
  <2>2. e \in Latest(Saying(f))
    BY <2>1
  <2>3. gs[f] = e[2].fields[f]
    BY <1>1, <1>2 DEF FieldsOf
  <2> HIDE DEF e, gs
  <2>4. e = d
    BY <2>1, <2>2 DEF Latest, Indexed
  <2> QED
    BY <2>1, <2>3, <2>4
<1>3. gs = [f \in DOMAIN gs |-> gs[f]] /\ fs = [f \in DOMAIN fs |-> fs[f]]
  BY DEF LatestFields, FieldsOf
<1> HIDE DEF gs
<1>4. fs = gs
  BY <1>1, <1>2, <1>3
<1> QED
  BY <1>4 DEF gs

LEMMA BodyTogether ==
  ASSUME NEW D, NEW N, Indexed(D, N), NEW b, LatestBody(b, D)
  PROVE  b = BodyOf(D)
<1> DEFINE S == {e \in D : e[2].body # {}}
<1>1. CASE b = {} /\ \A d \in D : d[2].body = {}
  <2>1. S = {}
    BY <1>1
  <2> QED
    BY <1>1, <2>1 DEF BodyOf, Latest
<1>2. CASE \E d \in Latest(S) : b = d[2].body
  <2>1. PICK d \in Latest(S) : b = d[2].body
    BY <1>2
  <2>2. Latest(S) = {d}
    BY <2>1 DEF Latest, Indexed
  <2> QED
    BY <2>1, <2>2 DEF BodyOf
<1> QED
  BY <1>1, <1>2 DEF LatestBody

\* A contract that is folded edge by edge is what its declarations say together.
LEMMA SummedIsTogether ==
  ASSUME NEW D, NEW N, Indexed(D, N), \A d \in D : edges[d[1]].lifecycle \in Lifecycles,
         NEW c, Summed(c, D), NEW protocol
  PROVE  Classify(protocol, Together(edges, D)) = Classify(protocol, c)
<1> DEFINE t == Together(edges, D)
           Ls == {edges[d[1]].lifecycle : d \in D}
<1>1. c.lifecycle = MostSignificant(Ls)
  <2>1. Ls \in SUBSET Lifecycles /\ TopLifecycle(c.lifecycle, Ls)
    BY DEF Summed
  <2> HIDE DEF Ls
  <2> QED
    BY <2>1, LifecycleTogether
<1>2. \A s \in BOOLEAN : Indexed(Made(D, s), N)
  BY DEF Indexed, Made
<1>3. c.exposedFields = FieldsOf(Made(D, TRUE)) /\ c.referencedFields = FieldsOf(Made(D, FALSE))
  BY <1>2, FieldsTogether DEF Summed
<1>4. c.exposedBody = BodyOf(Made(D, TRUE)) /\ c.referencedBody = BodyOf(Made(D, FALSE))
  BY <1>2, BodyTogether DEF Summed
<1>5. /\ t.lifecycle = MostSignificant(Ls) /\ t.directions = {d[2].direction : d \in D}
      /\ t.exposed = UNION {d[2].exposed : d \in D} /\ t.references = UNION {d[2].references : d \in D}
      /\ t.exposedFields = FieldsOf(Made(D, TRUE)) /\ t.referencedFields = FieldsOf(Made(D, FALSE))
      /\ t.exposedBody = BodyOf(Made(D, TRUE)) /\ t.referencedBody = BodyOf(Made(D, FALSE))
  BY DEF Together
<1>6. /\ c.directions = {d[2].direction : d \in D}
      /\ c.exposed = UNION {d[2].exposed : d \in D} /\ c.references = UNION {d[2].references : d \in D}
  BY DEF Summed
<1> HIDE DEF t, Ls
<1>7. /\ t.lifecycle = c.lifecycle /\ t.directions = c.directions
      /\ t.exposed = c.exposed /\ t.references = c.references
      /\ t.exposedFields = c.exposedFields /\ t.referencedFields = c.referencedFields
      /\ t.exposedBody = c.exposedBody /\ t.referencedBody = c.referencedBody
  BY <1>1, <1>3, <1>4, <1>5, <1>6
<1>8. Classify(protocol, t) = Classify(protocol, c)
  BY <1>7, ClassifyAgain
<1> QED
  BY <1>8 DEF t

\* The declarations D of es are the declarations E of fs, by other places.
Carried(es, D, fs, E) ==
  \A d \in D : \E e \in E : e[2] = d[2] /\ fs[e[1]].lifecycle = es[d[1]].lifecycle

\* Nobody on a side says anything else.
OneVoice(D) ==
  \A d, e \in D : /\ d[2].body = {} \/ e[2].body = {} \/ d[2].body = e[2].body
                  /\ \A f \in DOMAIN d[2].fields \cap DOMAIN e[2].fields : d[2].fields[f] = e[2].fields[f]

LEMMA FieldsReordered ==
  ASSUME NEW N \in Nat, NEW D, Indexed(D, N), NEW E, Indexed(E, N), OneVoice(D),
         \A d \in D : \E e \in E : e[2] = d[2], \A e \in E : \E d \in D : d[2] = e[2]
  PROVE  FieldsOf(E) = FieldsOf(D)
<1> DEFINE Saying(B, f) == {e \in B : f \in DOMAIN e[2].fields}
           one(B, f) == CHOOSE e \in Latest(Saying(B, f)) : TRUE
           X == UNION {DOMAIN d[2].fields : d \in D}
           Y == UNION {DOMAIN d[2].fields : d \in E}
<1>1. X = Y
  OBVIOUS
<1>2. ASSUME NEW f \in X PROVE one(E, f)[2].fields[f] = one(D, f)[2].fields[f]
  <2>1. Saying(D, f) # {} /\ Saying(E, f) # {}
    BY <1>1
  <2>2. /\ \A d \in Saying(D, f) : d[1] \in 1 .. N
        /\ \A d \in Saying(E, f) : d[1] \in 1 .. N
    BY DEF Indexed
  <2>3. Latest(Saying(D, f)) # {} /\ Latest(Saying(E, f)) # {}
    <3> HIDE DEF Saying
    <3> QED
      BY <2>1, <2>2, LatestExists
  <2>4. one(D, f) \in Saying(D, f) /\ one(E, f) \in Saying(E, f)
    BY <2>3 DEF Latest
  <2> DEFINE a == one(D, f)
             b == one(E, f)
  <2>5. a \in D /\ f \in DOMAIN a[2].fields /\ b \in E /\ f \in DOMAIN b[2].fields
    BY <2>4
  <2> HIDE DEF a, b
  <2>6. PICK c \in D : c[2] = b[2]
    BY <2>5
  <2>7. c[2].fields[f] = a[2].fields[f]
    BY <2>5, <2>6 DEF OneVoice
  <2> QED
    BY <2>6, <2>7 DEF a, b
<1>3. FieldsOf(D) = [f \in X |-> one(D, f)[2].fields[f]] /\ FieldsOf(E) = [f \in Y |-> one(E, f)[2].fields[f]]
  BY DEF FieldsOf
<1> HIDE DEF one, X, Y
<1> QED
  BY <1>1, <1>2, <1>3

LEMMA BodyReordered ==
  ASSUME NEW N \in Nat, NEW D, Indexed(D, N), NEW E, Indexed(E, N), OneVoice(D),
         \A d \in D : \E e \in E : e[2] = d[2], \A e \in E : \E d \in D : d[2] = e[2]
  PROVE  BodyOf(E) = BodyOf(D)
<1> DEFINE Saying(B) == {e \in B : e[2].body # {}}
<1>1. CASE Saying(D) = {}
  <2>1. Saying(E) = {}
    BY <1>1
  <2> QED
    BY <1>1, <2>1 DEF BodyOf, Latest
<1>2. CASE Saying(D) # {}
  <2>1. Saying(E) # {}
    BY <1>2
  <2>2. /\ \A d \in Saying(D) : d[1] \in 1 .. N
        /\ \A d \in Saying(E) : d[1] \in 1 .. N
    BY DEF Indexed
  <2>3. Latest(Saying(D)) # {} /\ Latest(Saying(E)) # {}
    <3> HIDE DEF Saying
    <3> QED
      BY <1>2, <2>1, <2>2, LatestExists
  <2>4. PICK a \in Saying(D), b \in Saying(E) : a \in Latest(Saying(D)) /\ b \in Latest(Saying(E))
    BY <2>3 DEF Latest
  <2>5. Latest(Saying(D)) = {a}
    <3>1. \A x \in Latest(Saying(D)) : x \in D /\ x[1] <= a[1] /\ a[1] <= x[1]
      BY <2>4 DEF Latest
    <3>2. a \in D /\ \A x \in D : x[1] \in 1 .. N /\ (x[1] = a[1] => x = a)
      BY <2>4 DEF Indexed
    <3>3. \A x \in Latest(Saying(D)) : x = a
      <4> HIDE DEF Saying
      <4> QED
        BY <3>1, <3>2
    <3> QED
      BY <2>4, <3>3
  <2>6. Latest(Saying(E)) = {b}
    <3>1. \A x \in Latest(Saying(E)) : x \in E /\ x[1] <= b[1] /\ b[1] <= x[1]
      BY <2>4 DEF Latest
    <3>2. b \in E /\ \A x \in E : x[1] \in 1 .. N /\ (x[1] = b[1] => x = b)
      BY <2>4 DEF Indexed
    <3>3. \A x \in Latest(Saying(E)) : x = b
      <4> HIDE DEF Saying
      <4> QED
        BY <3>1, <3>2
    <3> QED
      BY <2>4, <3>3
  <2>7. BodyOf(D) = a[2].body
    BY <2>5 DEF BodyOf
  <2>8. BodyOf(E) = b[2].body
    BY <2>6 DEF BodyOf
  <2>9. PICK c \in D : c[2] = b[2]
    BY <2>4
  <2>10. c[2].body = a[2].body
    BY <2>4, <2>9 DEF OneVoice
  <2> QED
    BY <2>9, <2>10, <2>7, <2>8
<1> QED
  BY <1>1, <1>2

LEMMA TogetherReordered ==
  ASSUME NEW N \in Nat, NEW es, NEW D, Indexed(D, N), NEW fs, NEW E, Indexed(E, N),
         Carried(es, D, fs, E), Carried(fs, E, es, D),
         \A s \in BOOLEAN : OneVoice(Made(D, s))
  PROVE  Together(fs, E) = Together(es, D)
<1>1. {fs[e[1]].lifecycle : e \in E} = {es[d[1]].lifecycle : d \in D}
  BY DEF Carried
<1>2. /\ {e[2].direction : e \in E} = {d[2].direction : d \in D}
      /\ UNION {e[2].exposed : e \in E} = UNION {d[2].exposed : d \in D}
      /\ UNION {e[2].references : e \in E} = UNION {d[2].references : d \in D}
  BY DEF Carried
<1>3. ASSUME NEW s \in BOOLEAN
      PROVE  FieldsOf(Made(E, s)) = FieldsOf(Made(D, s)) /\ BodyOf(Made(E, s)) = BodyOf(Made(D, s))
  <2> DEFINE B == Made(D, s)
             C == Made(E, s)
  <2>1. /\ \A d \in B : \E e \in C : e[2] = d[2]
        /\ \A e \in C : \E d \in B : d[2] = e[2]
    BY DEF Carried, Made
  <2>2. Indexed(B, N) /\ Indexed(C, N)
    BY DEF Indexed, Made
  <2>3. OneVoice(B)
    OBVIOUS
  <2> HIDE DEF B, C
  <2>4. FieldsOf(C) = FieldsOf(B) /\ BodyOf(C) = BodyOf(B)
    BY <2>1, <2>2, <2>3, FieldsReordered, BodyReordered
  <2> QED
    BY <2>4 DEF B, C
<1> QED
  BY <1>1, <1>2, <1>3 DEF Together

\* What some edges declare of a group.
LEMMA DeclaredBy ==
  ASSUME NEW es, NEW g, NEW d
  PROVE  d \in Declarations(es, g) <=>
           \E i \in DOMAIN es : \E p \in Payloads(es[i]) : d = <<i, p>> /\ Group(es, i, p) = g
  BY DEF Declarations

LEMMA DeclarationsOf ==
  ASSUME NEW N, NEW es, \A i \in DOMAIN es : i \in 1 .. N /\ es[i] \in Composed, NEW g
  PROVE  /\ \A d \in Declarations(es, g) :
              /\ d[1] \in DOMAIN es /\ d[2] \in Payloads(es[d[1]]) /\ Group(es, d[1], d[2]) = g
              /\ es[d[1]].lifecycle \in Lifecycles
         /\ Indexed(Declarations(es, g), N)
<1>1. \A d : d \in Declarations(es, g) <=>
        \E i \in DOMAIN es : \E p \in Payloads(es[i]) : d = <<i, p>> /\ Group(es, i, p) = g
  BY DeclaredBy
<1>2. \A i \in DOMAIN es : es[i].lifecycle \in Lifecycles
  BY DEF Composed
<1>3. ASSUME NEW d \in Declarations(es, g)
      PROVE  /\ d[1] \in DOMAIN es /\ d[2] \in Payloads(es[d[1]]) /\ Group(es, d[1], d[2]) = g
             /\ d = <<d[1], d[2]>>
  <2>1. PICK i \in DOMAIN es : \E p \in Payloads(es[i]) : d = <<i, p>> /\ Group(es, i, p) = g
    BY <1>1
  <2>2. PICK p \in Payloads(es[i]) : d = <<i, p>> /\ Group(es, i, p) = g
    BY <2>1
  <2>3. d[1] = i /\ d[2] = p
    BY <2>2
  <2> QED
    BY <2>2, <2>3
<1>4. ASSUME NEW d \in Declarations(es, g), NEW e \in Declarations(es, g), d[1] = e[1] PROVE d = e
  <2>1. d[2] = e[2]
    BY <1>3, <1>4, OnePayload
  <2> QED
    BY <1>3, <1>4, <2>1
<1> QED
  BY <1>1, <1>2, <1>3, <1>4 DEF Indexed

LEMMA UptoAll ==
  ASSUME edges \in Seq(Composed), NEW g
  PROVE  Upto(Len(edges), g) = Declarations(edges, g)
<1>1. \A d \in Declarations(edges, g) : d[1] \in 1 .. Len(edges) /\ Len(edges) \in Nat
  BY DeclaredPairs, LenProperties
<1> QED
  BY <1>1 DEF Upto

\* What a hub says of a contract in the end.
LEMMA VerdictIsOwn ==
  ASSUME FedInv, SumInv, Reconciled, NEW g \in DOMAIN contracts
  PROVE  contracts[g].verdict = VerdictOf(edges, g)
<1>1. /\ edges \in Seq(Composed) /\ Judged /\ AllSummed(contracts, Len(edges))
  BY Finished DEF SumInv, Reconciled
<1>2. \A i \in DOMAIN edges : i \in 1 .. Len(edges) /\ edges[i] \in Composed
  BY <1>1, LenProperties, ElementOfSeq
<1> DEFINE D == Declarations(edges, g)
<1>3. Indexed(D, Len(edges)) /\ \A d \in D : edges[d[1]].lifecycle \in Lifecycles
  BY <1>2, DeclarationsOf
<1>4. Summed(contracts[g], D)
  BY <1>1, UptoAll DEF AllSummed
<1> HIDE DEF D
<1>5. Classify(g[2][1], Together(edges, D)) = Classify(g[2][1], contracts[g])
  BY <1>3, <1>4, SummedIsTogether
<1> QED
  BY <1>1, <1>5 DEF Judged, VerdictOf, D

LEMMA OrderDoesNotMatter == FedInv /\ SumInv => OrderFree
<1> SUFFICES ASSUME FedInv, SumInv, Reconciled, NEW order \in Bijection(DOMAIN edges, DOMAIN edges),
                    NEW g \in DOMAIN contracts, OneSurface(edges, g)
             PROVE  VerdictOf([i \in DOMAIN edges |-> edges[order[i]]], g) = contracts[g].verdict
  BY DEF OrderFree
<1> DEFINE N == Len(edges)
           fs == [i \in DOMAIN edges |-> edges[order[i]]]
           D == Declarations(edges, g)
           E == Declarations(fs, g)
<1>1. /\ order \in [DOMAIN edges -> DOMAIN edges]
      /\ \A j \in DOMAIN edges : \E i \in DOMAIN edges : order[i] = j
  BY DEF Bijection, Injection, Surjection
<1>2. N \in Nat /\ \A i \in DOMAIN edges : i \in 1 .. N /\ edges[i] \in Composed
  BY Finished, LenProperties, ElementOfSeq
<1>3. DOMAIN fs = DOMAIN edges /\ \A i \in DOMAIN edges : fs[i] = edges[order[i]] /\ order[i] \in DOMAIN edges
  BY <1>1
<1> HIDE DEF fs, N
<1>4. \A i \in DOMAIN fs : i \in 1 .. N /\ fs[i] \in Composed
  BY <1>2, <1>3
<1>5. CrossLandscapeKeys(fs) = CrossLandscapeKeys(edges)
  <2>1. \A k : k \in CrossLandscapeKeys(edges) <=>
          \E i \in DOMAIN edges : /\ edges[i].dst.repo # edges[i].repo
                                  /\ \E p \in Payloads(edges[i]) : k = Key(p)
    BY DEF CrossLandscapeKeys
  <2>2. \A k : k \in CrossLandscapeKeys(fs) <=>
          \E i \in DOMAIN fs : /\ fs[i].dst.repo # fs[i].repo
                               /\ \E p \in Payloads(fs[i]) : k = Key(p)
    BY DEF CrossLandscapeKeys
  <2>3. \A k : k \in CrossLandscapeKeys(fs) <=> k \in CrossLandscapeKeys(edges)
    BY <1>1, <1>3, <2>1, <2>2
  <2> QED
    BY <2>3
<1>6. \A i \in DOMAIN fs : \A p : Group(fs, i, p) = Group(edges, order[i], p)
  BY <1>3, <1>5 DEF Group, GroupKey
<1>7. /\ \A d : d \in D <=> \E i \in DOMAIN edges : \E p \in Payloads(edges[i]) : d = <<i, p>> /\ Group(edges, i, p) = g
      /\ \A d \in D : d[1] \in DOMAIN edges /\ d[2] \in Payloads(edges[d[1]]) /\ Group(edges, d[1], d[2]) = g
      /\ Indexed(D, N)
  BY <1>2, DeclaredBy, DeclarationsOf
<1>8. /\ \A d : d \in E <=> \E i \in DOMAIN fs : \E p \in Payloads(fs[i]) : d = <<i, p>> /\ Group(fs, i, p) = g
      /\ \A d \in E : d[1] \in DOMAIN fs /\ d[2] \in Payloads(fs[d[1]]) /\ Group(fs, d[1], d[2]) = g
      /\ Indexed(E, N)
  <2>1. \A d : d \in E <=> \E i \in DOMAIN fs : \E p \in Payloads(fs[i]) : d = <<i, p>> /\ Group(fs, i, p) = g
    BY DeclaredBy
  <2>2. \A d \in E : d[1] \in DOMAIN fs /\ d[2] \in Payloads(fs[d[1]]) /\ Group(fs, d[1], d[2]) = g
    BY <1>4, DeclarationsOf
  <2>3. Indexed(E, N)
    BY <1>4, DeclarationsOf
  <2> QED
    BY <2>1, <2>2, <2>3
<1>9. \A s \in BOOLEAN : OneVoice(Made(D, s))
  BY DEF OneSurface, OneVoice, Made
<1> HIDE DEF D, E
<1>10. Carried(edges, D, fs, E)
  <2> SUFFICES ASSUME NEW d \in D
               PROVE  \E e \in E : e[2] = d[2] /\ fs[e[1]].lifecycle = edges[d[1]].lifecycle
    BY DEF Carried
  <2>1. d[1] \in DOMAIN edges /\ d[2] \in Payloads(edges[d[1]]) /\ Group(edges, d[1], d[2]) = g
    BY <1>7
  <2>2. PICK i \in DOMAIN edges : order[i] = d[1]
    BY <1>1, <2>1
  <2>3. fs[i] = edges[d[1]] /\ Group(fs, i, d[2]) = g
    BY <1>3, <1>6, <2>1, <2>2
  <2>4. <<i, d[2]>> \in E
    BY <1>3, <1>8, <2>1, <2>3
  <2> WITNESS <<i, d[2]>> \in E
  <2> QED
    BY <2>3
<1>11. Carried(fs, E, edges, D)
  <2> SUFFICES ASSUME NEW e \in E
               PROVE  \E d \in D : d[2] = e[2] /\ edges[d[1]].lifecycle = fs[e[1]].lifecycle
    BY DEF Carried
  <2>1. e[1] \in DOMAIN edges /\ e[2] \in Payloads(edges[order[e[1]]]) /\ Group(edges, order[e[1]], e[2]) = g
    BY <1>3, <1>6, <1>8
  <2>2. <<order[e[1]], e[2]>> \in D
    BY <1>3, <1>7, <2>1
  <2> WITNESS <<order[e[1]], e[2]>> \in D
  <2> QED
    BY <1>3, <2>1
<1>12. Together(fs, E) = Together(edges, D)
  BY <1>2, <1>7, <1>8, <1>9, <1>10, <1>11, TogetherReordered
<1>13. VerdictOf(fs, g) = VerdictOf(edges, g)
  BY <1>12 DEF VerdictOf, D, E
<1> QED
  BY <1>13, VerdictIsOwn DEF fs

LEMMA ProductsStayApart == FedInv /\ SumInv => ProductsApart
<1> SUFFICES ASSUME FedInv, SumInv, Reconciled, NEW i \in DOMAIN edges, NEW p \in Payloads(edges[i]),
                    Key(p) \notin CrossLandscapeKeys(edges)
             PROVE  LET own == Restrict(edges, {j \in DOMAIN edges : edges[j].landscape = edges[i].landscape})
                    IN  /\ contracts[Group(edges, i, p)].verdict = VerdictOf(own, Group(own, i, p))
                        /\ Undeclared(edges, i) <=> Undeclared(own, i)
  BY DEF ProductsApart
<1> DEFINE N == Len(edges)
           J == {j \in DOMAIN edges : edges[j].landscape = edges[i].landscape}
           own == Restrict(edges, J)
           g == Group(edges, i, p)
<1>1. N \in Nat /\ \A j \in DOMAIN edges : j \in 1 .. N /\ edges[j] \in Composed
  BY Finished, LenProperties, ElementOfSeq
<1>2. DOMAIN own = J /\ (\A j \in J : own[j] = edges[j]) /\ i \in J /\ J \subseteq DOMAIN edges
  BY DEF Restrict
<1> HIDE DEF own, N
<1>3. Key(p) \notin CrossLandscapeKeys(own)
  BY <1>2 DEF CrossLandscapeKeys
<1>4. g = <<edges[i].landscape, Key(p)>> /\ Group(own, i, p) = g
  BY <1>2, <1>3 DEF Group, GroupKey
<1>5. \A j \in DOMAIN edges : \A q \in Payloads(edges[j]) :
        Group(edges, j, q) = g <=> Key(q) = Key(p) /\ j \in J
  BY <1>4 DEF Group, GroupKey
<1>6. \A j \in J : \A q \in Payloads(edges[j]) : Group(own, j, q) = g <=> Key(q) = Key(p)
  BY <1>2, <1>3, <1>4 DEF Group, GroupKey
<1>7. \A j \in DOMAIN own : j \in 1 .. N /\ own[j] \in Composed
  BY <1>1, <1>2
<1> DEFINE D == Declarations(edges, g)
           E == Declarations(own, g)
<1>8. /\ \A d : d \in D <=> \E j \in DOMAIN edges : \E q \in Payloads(edges[j]) : d = <<j, q>> /\ Group(edges, j, q) = g
      /\ \A d \in D : d[1] \in DOMAIN edges /\ d[2] \in Payloads(edges[d[1]]) /\ Group(edges, d[1], d[2]) = g
  <2>1. \A d : d \in D <=> \E j \in DOMAIN edges : \E q \in Payloads(edges[j]) : d = <<j, q>> /\ Group(edges, j, q) = g
    BY DeclaredBy
  <2>2. \A d \in D : d[1] \in DOMAIN edges /\ d[2] \in Payloads(edges[d[1]]) /\ Group(edges, d[1], d[2]) = g
    BY <1>1, DeclarationsOf
  <2> QED
    BY <2>1, <2>2
<1>9. \A d : d \in E <=> \E j \in DOMAIN own : \E q \in Payloads(own[j]) : d = <<j, q>> /\ Group(own, j, q) = g
  BY DeclaredBy
<1> HIDE DEF g, D, E, J
<1>10. D = E
  <2>1. \A d : d \in D <=> d \in E
    BY <1>2, <1>5, <1>6, <1>8, <1>9
  <2> QED
    BY <2>1
<1>11. \A d \in D : own[d[1]] = edges[d[1]]
  BY <1>2, <1>5, <1>8
<1>12. Together(own, D) = Together(edges, D)
  <2>1. {own[d[1]].lifecycle : d \in D} = {edges[d[1]].lifecycle : d \in D}
    BY <1>11
  <2> QED
    BY <2>1 DEF Together
<1>13. VerdictOf(own, g) = VerdictOf(edges, g)
  BY <1>10, <1>12 DEF VerdictOf, D, E
<1>14. g \in DOMAIN contracts
  BY Finished, OwnGroup DEF g
<1>15. Undeclared(edges, i) <=> Undeclared(own, i)
  <2>1. \A q \in edges[i].contract : q.protocol = "amqp" => q \in Payloads(edges[i])
    BY DEF Payloads
  <2>2. \A q \in edges[i].contract : q.protocol = "amqp" => q = p
    BY <1>1, <2>1, OnePayload
  <2>3. g \in ConsumedGroups(edges) <=>
          \E j \in DOMAIN edges : \E q \in Payloads(edges[j]) : q.direction = "consumes" /\ Group(edges, j, q) = g
    BY DEF ConsumedGroups, Group
  <2>4. g \in ConsumedGroups(own) <=>
          \E j \in DOMAIN own : \E q \in Payloads(own[j]) : q.direction = "consumes" /\ Group(own, j, q) = g
    BY DEF ConsumedGroups, Group
  <2>5. g \in ConsumedGroups(edges) <=> g \in ConsumedGroups(own)
    BY <1>2, <1>5, <1>6, <2>3, <2>4
  <2>6. /\ GroupKey(edges[i], p, CrossLandscapeKeys(edges)) = g
        /\ GroupKey(own[i], p, CrossLandscapeKeys(own)) = g
    BY <1>4 DEF g, Group
  <2> QED
    BY <1>2, <2>2, <2>5, <2>6 DEF Undeclared
<1>16. contracts[g].verdict = VerdictOf(own, Group(own, i, p))
  BY <1>4, <1>13, <1>14, VerdictIsOwn DEF g
<1> QED
  BY <1>15, <1>16 DEF own, J, g

\* Whatever the satellites export: the order of their artifacts decides no verdict where
\* nobody on a side contradicts another, and other products no verdict of a contract that
\* stays within one (reconcile_contracts and _mark_undeclared).
THEOREM VerdictsAlwaysOwn == Spec => []VerdictsAreOwn
<1>1. Init => FedInv /\ SumInv
  BY FedInitial, SumsStart
<1>2. FedInv /\ SumInv /\ [Next]_vars => (FedInv /\ SumInv)'
  BY FedStep, SumsStep
<1>3. FedInv /\ SumInv => VerdictsAreOwn
  BY OrderDoesNotMatter, ProductsStayApart DEF VerdictsAreOwn
<1> QED
  BY <1>1, <1>2, <1>3, PTL DEF Spec

-----------------------------------------------------------------------------
(* Surfaces: what the comparison of two bodies passes can be read, and what *)
(* the verdict says of two field surfaces is so.                            *)

LEMMA PathPrefixes ==
  ASSUME NEW S, NEW path \in Seq(S), NEW k \in 0 .. Len(path)
  PROVE  /\ SubSeq(path, 1, k) \in Seq(S) /\ Len(SubSeq(path, 1, k)) = k
         /\ \A j \in 1 .. k : SubSeq(path, 1, k)[j] = path[j]
         /\ \A j \in 0 .. k : SubSeq(SubSeq(path, 1, k), 1, j) = SubSeq(path, 1, j)
         /\ k > 0 => /\ Front(SubSeq(path, 1, k)) = SubSeq(path, 1, k - 1)
                     /\ Last(SubSeq(path, 1, k)) = path[k]
<1>1. Len(path) \in Nat
  BY LenProperties
<1>2. \A j \in 0 .. Len(path) : /\ SubSeq(path, 1, j) \in Seq(S) /\ Len(SubSeq(path, 1, j)) = j
                                /\ \A i \in 1 .. j : SubSeq(path, 1, j)[i] = path[i]
  BY <1>1
<1> DEFINE s == SubSeq(path, 1, k)
<1>3. s \in Seq(S) /\ Len(s) = k /\ \A j \in 1 .. k : s[j] = path[j]
  BY <1>2
<1> HIDE DEF s
<1>4. ASSUME NEW j \in 0 .. k PROVE SubSeq(s, 1, j) = SubSeq(path, 1, j)
  <2>1. j \in 0 .. Len(path) /\ j \in 0 .. Len(s)
    BY <1>1, <1>3
  <2>2. SubSeq(s, 1, j) \in Seq(S) /\ Len(SubSeq(s, 1, j)) = j /\ \A i \in 1 .. j : SubSeq(s, 1, j)[i] = s[i]
    BY <1>3, <2>1
  <2> DEFINE a == SubSeq(s, 1, j)
             b == SubSeq(path, 1, j)
  <2>3. /\ a \in Seq(S) /\ b \in Seq(S) /\ Len(a) = Len(b)
        /\ \A i \in 1 .. Len(a) : a[i] = b[i]
    BY <1>2, <1>3, <2>1, <2>2
  <2> HIDE DEF a, b
  <2>4. a = b
    BY <2>3, SeqEqual
  <2> QED
    BY <2>4 DEF a, b
<1>5. k > 0 => Front(s) = SubSeq(path, 1, k - 1) /\ Last(s) = path[k]
  <2> SUFFICES ASSUME k > 0 PROVE Front(s) = SubSeq(path, 1, k - 1) /\ Last(s) = path[k]
    OBVIOUS
  <2>1. Front(s) = SubSeq(s, 1, k - 1) /\ Last(s) = s[k]
    BY <1>3 DEF Front, Last
  <2>2. k - 1 \in 0 .. k /\ k \in 1 .. k
    BY <1>1
  <2> QED
    BY <1>3, <1>4, <2>1, <2>2
<1> QED
  BY <1>3, <1>4, <1>5 DEF s

LEMMA FirstBreak ==
  ASSUME NEW T \in SUBSET Nat, T # {}
  PROVE  \E i \in T : \A j \in T : i <= j
<1> DEFINE R == {ss \in Nat \X Nat : ss[1] < ss[2]}
<1>1. IsWellFoundedOn(R, Nat)
  BY NatLessThanWellFounded DEF OpToRel
<1> HIDE DEF R
<1>2. PICK i \in T : \A j \in T : ~(<<j, i>> \in R)
  BY <1>1, WFMin
<1>3. \A j \in T : ~(j < i)
  BY <1>2 DEF R
<1> QED
  BY <1>3

\* A path of the consumer below which something breaks has a first break, and that
\* one is reported.
LEMMA NothingBreaks ==
  ASSUME NEW b, NEW c, IsBody(c), ItemsCompared(c), BreakingBodyDescriptors(b, c) = {},
         NEW path \in DOMAIN c \ {<< >>}
  PROVE  ~ DiffNode(b, c, path)
<1> DEFINE S == Range(path)
           pre(k) == SubSeq(path, 1, k)
           T == {k \in 1 .. Len(path) : DiffNode(b, c, pre(k))}
<1>1. path \in Seq(S) /\ \A k \in 0 .. Len(path) : pre(k) \in DOMAIN c
  BY DEF IsBody
<1> HIDE DEF S
<1>2. Len(path) \in Nat /\ Len(path) > 0
  BY <1>1, LenProperties, EmptySeq
<1>3. \A k \in 0 .. Len(path) :
        /\ pre(k) \in Seq(S) /\ Len(pre(k)) = k
        /\ \A j \in 1 .. k : pre(k)[j] = path[j]
        /\ \A j \in 0 .. k : SubSeq(pre(k), 1, j) = pre(j)
        /\ k > 0 => Front(pre(k)) = pre(k - 1) /\ Last(pre(k)) = path[k]
  BY <1>1, PathPrefixes
<1>4. pre(Len(path)) = path
  <2> DEFINE a == pre(Len(path))
  <2>1. a \in Seq(S) /\ Len(a) = Len(path) /\ \A i \in 1 .. Len(a) : a[i] = path[i]
    BY <1>2, <1>3
  <2> HIDE DEF a
  <2> QED
    BY <1>1, <2>1, SeqEqual DEF a
<1> HIDE DEF pre
<1>5. \A k \in 1 .. Len(path) : path[k] = "[]" => DiffItems(c, pre(k - 1))
  <2> SUFFICES ASSUME NEW k \in 1 .. Len(path), path[k] = "[]" PROVE DiffItems(c, pre(k - 1))
    OBVIOUS
  <2>1. pre(k) \in DOMAIN c /\ Last(pre(k)) = "[]" /\ Front(pre(k)) = pre(k - 1) /\ Len(pre(k)) = k
    BY <1>1, <1>2, <1>3
  <2>2. pre(k) # << >>
    BY <2>1
  <2> QED
    BY <2>1, <2>2 DEF ItemsCompared
<1>6. T = {}
  <2> SUFFICES ASSUME T # {} PROVE FALSE
    OBVIOUS
  <2>0. T \in SUBSET Nat
    BY <1>2
  <2> HIDE DEF T
  <2>1. PICK k \in T : \A j \in T : k <= j
    BY <2>0, FirstBreak
  <2>2. k \in 1 .. Len(path) /\ k \in 0 .. Len(path) /\ DiffNode(b, c, pre(k))
    BY <1>2, <2>1 DEF T
  <2>3. Len(pre(k)) = k /\ pre(k) \in DOMAIN c
    BY <1>1, <1>3, <2>2
  <2>4. pre(k) # << >>
    BY <2>2, <2>3
  <2>5. \A j \in 1 .. k : pre(k)[j] = "[]" => DiffItems(c, SubSeq(pre(k), 1, j - 1))
    <3> SUFFICES ASSUME NEW j \in 1 .. k, pre(k)[j] = "[]"
                 PROVE  DiffItems(c, SubSeq(pre(k), 1, j - 1))
      OBVIOUS
    <3>1. j \in 1 .. Len(path) /\ j - 1 \in 0 .. k
      BY <1>2, <2>2
    <3>2. pre(k)[j] = path[j] /\ SubSeq(pre(k), 1, j - 1) = pre(j - 1)
      BY <1>3, <2>2, <3>1
    <3>3. DiffItems(c, pre(j - 1))
      BY <1>5, <3>1, <3>2
    <3> QED
      BY <3>2, <3>3
  <2>6. \A j \in 1 .. (k - 1) : ~ DiffNode(b, c, SubSeq(pre(k), 1, j))
    <3> SUFFICES ASSUME NEW j \in 1 .. (k - 1) PROVE ~ DiffNode(b, c, SubSeq(pre(k), 1, j))
      OBVIOUS
    <3>1. SubSeq(pre(k), 1, j) = pre(j) /\ j \in 1 .. Len(path) /\ j < k
      BY <1>3, <2>2
    <3>2. j \notin T
      <4> SUFFICES ASSUME j \in T PROVE FALSE
        OBVIOUS
      <4>1. k <= j
        BY <2>1
      <4> QED
        BY <2>2, <3>1, <4>1
    <3> QED
      BY <3>1, <3>2 DEF T
  <2>7. Diff(b, c, pre(k))
    BY <2>3, <2>5, <2>6 DEF Diff
  <2> QED
    BY <2>2, <2>3, <2>4, <2>7 DEF BreakingBodyDescriptors
<1>7. Len(path) \notin T
  BY <1>6
<1> QED
  BY <1>2, <1>4, <1>7

LEMMA PassedIsReadable ==
  ASSUME NEW b, NEW c, IsBody(b), IsBody(c), TypesKnown(b), ItemsCompared(c),
         BreakingBodyDescriptors(b, c) = {}, NEW m \in Messages(b)
  PROVE  Readable(m, c)
<1> SUFFICES ASSUME NEW path \in DOMAIN c \ {<< >>}, Front(path) \in DOMAIN m
             PROVE  IF path \in DOMAIN m
                    THEN c[path].type \in {"", m[path]}
                    ELSE Last(path) \notin c[Front(path)].required
  BY DEF Readable
<1>1. PICK filled \in SUBSET DOMAIN b :
        /\ \A p \in DOMAIN b \ {<< >>} :
             Front(p) \in filled /\ Last(p) \in b[Front(p)].required => p \in filled
        /\ m = [p \in filled |-> b[p].type]
  BY DEF Messages
<1>2. ~ DiffNode(b, c, path)
  BY NothingBreaks
<1>3. CASE path \in DOMAIN m
  <2>1. path \in DOMAIN b /\ m[path] = b[path].type /\ b[path].type # ""
    BY <1>1, <1>3 DEF TypesKnown
  <2>2. TypesCompatible(b[path], c[path])
    BY <1>2, <2>1 DEF DiffNode, Mismatch, Declared
  <2> QED
    BY <1>3, <2>1, <2>2 DEF TypesCompatible
<1>4. CASE path \notin DOMAIN m
  <2> SUFFICES ASSUME Last(path) \in c[Front(path)].required PROVE FALSE
    BY <1>4
  <2>1. Front(path) \in DOMAIN c
    <3>1. path \in Seq(Range(path)) /\ \A k \in 0 .. Len(path) : SubSeq(path, 1, k) \in DOMAIN c
      BY DEF IsBody
    <3>2. Len(path) \in Nat /\ Len(path) > 0
      BY <3>1, LenProperties, EmptySeq
    <3> QED
      BY <3>1, <3>2 DEF Front
  <2>2. Last(path) # "[]"
    BY <2>1 DEF IsBody
  <2>3. Front(path) \in DOMAIN b /\ Declared(b, Front(path)) = b[Front(path)]
    BY <1>1 DEF Declared
  <2>4. path \in DOMAIN b /\ Last(path) \in b[Front(path)].required
    BY <1>2, <2>2, <2>3 DEF DiffNode
  <2> QED
    BY <1>1, <1>4, <2>3, <2>4
<1> QED
  BY <1>3, <1>4

LEMMA ConfirmedCanBeRead == FedInv /\ SumInv => ConfirmedIsReadable
<1> SUFFICES ASSUME FedInv, SumInv, Reconciled, NEW g \in DOMAIN contracts,
                    g[2][1] = "amqp", contracts[g].verdict = "confirmed", OneSurface(edges, g),
                    NEW d \in Declarations(edges, g), NEW e \in Declarations(edges, g),
                    Side(d[2]), ~ Side(e[2]), NEW b \in d[2].body, NEW r \in e[2].body,
                    TypesKnown(b), ItemsCompared(r), NEW m \in Messages(b)
             PROVE  Readable(m, r)
  BY DEF ConfirmedIsReadable
<1> DEFINE c == contracts[g]
           D == Declarations(edges, g)
<1>1. Judged /\ edges \in Seq(Composed) /\ AllSummed(contracts, Len(edges))
  BY Finished DEF SumInv, Reconciled
<1>2. Summed(c, D)
  BY <1>1, UptoAll DEF AllSummed
<1>3. Missing("amqp", c) = {}
  BY <1>1 DEF Judged, Classify
<1>4. \A p \in c.exposedBody, q \in c.referencedBody : BreakingBodyDescriptors(p, q) = {}
  <2>1. Missing("amqp", c) = UNION {BreakingBodyDescriptors(p, q) : p \in c.exposedBody, q \in c.referencedBody}
    BY DEF Missing
  <2> HIDE DEF c
  <2> QED
    BY <1>3, <2>1
<1> HIDE DEF c, D
<1>5. ASSUME NEW s \in BOOLEAN, NEW x \in D, Side(x[2]) = s, x[2].body # {}, NEW y, LatestBody(y, Made(D, s))
      PROVE  x[2].body = y
  <2>1. x \in Made(D, s)
    BY <1>5 DEF Made
  <2>2. PICK z \in Latest({w \in Made(D, s) : w[2].body # {}}) : y = z[2].body
    BY <1>5, <2>1 DEF LatestBody
  <2>3. z \in D /\ Side(z[2]) = s /\ z[2].body # {}
    BY DEF Latest, Made
  <2> QED
    BY <1>5, <2>2, <2>3 DEF OneSurface, D
<1>6. b \in c.exposedBody
  <2>1. LatestBody(c.exposedBody, Made(D, TRUE))
    BY <1>2 DEF Summed
  <2>2. d \in D /\ Side(d[2]) = TRUE /\ d[2].body # {}
    BY DEF D
  <2> QED
    BY <1>5, <2>1, <2>2
<1>7. r \in c.referencedBody
  <2>1. LatestBody(c.referencedBody, Made(D, FALSE))
    BY <1>2 DEF Summed
  <2>2. e \in D /\ Side(e[2]) = FALSE /\ e[2].body # {}
    BY DEF D, Side
  <2> QED
    BY <1>5, <2>1, <2>2
<1>8. IsBody(b) /\ IsBody(r)
  <2>1. d[2] \in ContractPayloads /\ e[2] \in ContractPayloads
    BY <1>1, DeclaredPairs
  <2> QED
    BY <2>1, PayloadsAssumption DEF IsPayload
<1> QED
  BY <1>4, <1>6, <1>7, <1>8, PassedIsReadable

LEMMA TypedBreaksAreReal == FedInv /\ SumInv => TypedBreakIsReal
<1> SUFFICES ASSUME FedInv, SumInv, Reconciled, NEW g \in DOMAIN contracts,
                    g[2][1] = "graphql", Typed(contracts[g]),
                    contracts[g].verdict \in {"confirmed", "breaking"}
             PROVE  LET c == contracts[g]
                        Works(f) == f \in DOMAIN c.exposedFields
                                      /\ Understood(c.exposedFields[f], c.referencedFields[f])
                    IN  c.verdict = "breaking" <=> \E f \in DOMAIN c.referencedFields : ~ Works(f)
  BY DEF TypedBreakIsReal
<1> DEFINE c == contracts[g]
           D == Declarations(edges, g)
<1>1. Judged /\ edges \in Seq(Composed) /\ AllSummed(contracts, Len(edges))
  BY Finished DEF SumInv, Reconciled
<1>2. Summed(c, D)
  BY <1>1, UptoAll DEF AllSummed
<1>3. c.verdict = Classify("graphql", c)
  BY <1>1 DEF Judged
<1>4. Missing("graphql", c) = BreakingFieldDescriptors(c.exposedFields, c.referencedFields)
  BY DEF Missing
<1> HIDE DEF c
<1>5. c.verdict = "breaking" <=> BreakingFieldDescriptors(c.exposedFields, c.referencedFields) # {}
  <2>1. c.verdict \in {"confirmed", "breaking"}
    BY DEF c
  <2> QED
    BY <1>3, <1>4, <2>1 DEF Classify
<1>6. \A d \in D : \A f \in DOMAIN d[2].fields : IsField(d[2].fields[f])
  BY <1>1, DeclaredPairs, PayloadsAssumption DEF IsPayload
<1> HIDE DEF D
<1>7. ASSUME NEW fs, NEW s \in BOOLEAN, LatestFields(fs, Made(D, s)), NEW f \in DOMAIN fs
      PROVE  IsField(fs[f])
  <2>1. PICK d \in Latest({x \in Made(D, s) : f \in DOMAIN x[2].fields}) : fs[f] = d[2].fields[f]
    BY <1>7 DEF LatestFields
  <2>2. d \in D /\ f \in DOMAIN d[2].fields
    BY DEF Latest, Made
  <2> QED
    BY <1>6, <2>1, <2>2
<1>8. /\ \A f \in DOMAIN c.exposedFields : IsField(c.exposedFields[f])
      /\ \A f \in DOMAIN c.referencedFields : IsField(c.referencedFields[f])
  <2>1. LatestFields(c.exposedFields, Made(D, TRUE)) /\ LatestFields(c.referencedFields, Made(D, FALSE))
    BY <1>2 DEF Summed
  <2> QED
    BY <1>7, <2>1
<1>9. BreakingFieldDescriptors(c.exposedFields, c.referencedFields) = {}
        <=> \A f \in DOMAIN c.referencedFields :
              f \in DOMAIN c.exposedFields /\ Understood(c.exposedFields[f], c.referencedFields[f])
  BY <1>8, NothingReportedIffUnderstood
<1> QED
  BY <1>5, <1>9 DEF c

\* Whatever the satellites export: a body that a hub passes is one the consumer can read, and
\* a typed GraphQL contract is breaking exactly if a value is not understood
\* (breaking_body_descriptors and breaking_field_descriptors as classify uses them).
THEOREM SurfacesAlwaysUsable == Spec => []SurfacesAreUsable
<1>1. Init => FedInv /\ SumInv
  BY FedInitial, SumsStart
<1>2. FedInv /\ SumInv /\ [Next]_vars => (FedInv /\ SumInv)'
  BY FedStep, SumsStep
<1>3. FedInv /\ SumInv => SurfacesAreUsable
  BY ConfirmedCanBeRead, TypedBreaksAreReal DEF SurfacesAreUsable
<1> QED
  BY <1>1, <1>2, <1>3, PTL DEF Spec
=============================================================================
