----------------------------- MODULE Maintenance -----------------------------
(* Repository maintenance against a client that keeps making snapshots:       *)
(* repo/maintenance, snapshot/snapshotgc and snapshot/snapshotmaintenance.    *)
(*                                                                            *)
(* Contents live in packs and are found through an index.  A maintenance run  *)
(* marks contents no snapshot uses as deleted, rewrites contents of short     *)
(* packs, drops entries deleted long ago from the index, and deletes packs    *)
(* the index does not mention.  Nothing locks the client out: what protects a *)
(* snapshot in the making is time.  The margins (SafetyParameters) are        *)
(* constants; so are the two bounds on the client they rely on: the age of    *)
(* the index it reads (indexRefreshFrequency) and the time from reading the   *)
(* index to committing a snapshot or a checkpoint that uses what it found.    *)
(*                                                                            *)
(* All contents have the metadata prefix, for which a quick cycle does what a *)
(* full one does; all packs are short enough to rewrite, or none is.          *)
(* How the index blobs are stored and compacted is the module EpochManager.   *)
EXTENDS Naturals, FiniteSets, Sequences

CONSTANTS
  Contents,                         \* content identifiers
  MaxPacks,                         \* bound: packs written in one behaviour
  Plans,                            \* the scenarios: see Plan
  MaxUploads,                       \* bound: snapshots and checkpoints begun
  MaxLost,                          \* bound: rewrites whose report is lost
  StartTime,                        \* the clock at first
  MinContentAgeSubjectToGC,         \* SafetyParameters
  MarginBetweenSnapshotGC,
  DropContentFromIndexExtraMargin,
  RewriteMinAge,
  PackDeleteMinAge,
  SessionExpirationAge,
  MinRewriteToOrphanDeletionDelay,
  ViewAge,                          \* the client's index is at most this old
  UploadWindow,                     \* from the client's look to its commit
  PackWindow                        \* from a pack's upload to its index entry

VARIABLES
  now,        \* the clock
  plan,       \* the scenario
  index,      \* what the stored index says: Contents -> Entry
  packs,      \* stored packs: id -> [time, session]; time 0 when not stored
  written,    \* pack identifiers used so far
  sessions,   \* session markers: session -> time of the marker, 0 when none
  snapshots,  \* committed snapshots, as the sets of contents they need
  schedule,   \* the maintenance schedule blob
  m,          \* the maintenance run, if any
  u,          \* the client
  undeleted   \* history: contents a snapshot GC has undeleted

vars == <<now, plan, index, packs, written, sessions, snapshots, schedule, m, u, undeleted>>

PackIds == 1..MaxPacks
SessionIds == 0..MaxUploads
Times == 0..(StartTime + 20)
Entry == [pack : 0..MaxPacks, deleted : BOOLEAN, time : Times]
Absent == [pack |-> 0, deleted |-> TRUE, time |-> 0]
Live(e) == e # Absent /\ ~e.deleted
NoEntries == [c \in Contents |-> Absent]

(* A scenario: does the repository use the epoch manager, are its packs short *)
(* enough to rewrite, the modes of the maintenance runs, the contents of the  *)
(* client's files, the index and the snapshots at first, and bounds on the    *)
(* length of a run and on the clock.                                          *)
Plan == [epochs : BOOLEAN, short : BOOLEAN, runs : Seq({"full", "quick"}), files : SUBSET Contents,
         index : [Contents -> Entry], snapshots : SUBSET SUBSET Contents, length : Nat, end : Nat]

(* The newer entry of two: contentInfoGreaterThanStruct.                      *)
Newer(a, b) ==
  \/ a.time > b.time
  \/ a.time = b.time /\ ~a.deleted /\ b.deleted
  \/ a.time = b.time /\ a.deleted = b.deleted /\ a.pack > b.pack
Merge(old, new) == [c \in Contents |-> IF Newer(new[c], old[c]) THEN new[c] ELSE old[c]]

WriteTime(e) == IF now > e.time THEN now ELSE e.time + 1
NextPack == written + 1

Max2(a, b) == IF a > b THEN a ELSE b

-----------------------------------------------------------------------------
(* A maintenance run                                                          *)

NoRun == [pc |-> "idle", mode |-> "none", start |-> 0, view |-> NoEntries,
          used |-> {}, pending |-> NoEntries, active |-> {}]

(* RunExclusive, for the owner and with the lock file free: schedule, note    *)
(* the start, refresh the index.  A quick run with the epoch manager does     *)
(* nothing here.  The snapshots a run sees are those of the refreshed index.  *)
(* Snapshot GC, which comes first in a full run, notes its start before it    *)
(* does anything: the time from the refresh to that note is taken as nothing. *)
RunExclusive(mode) ==
  /\ m.pc = "idle"
  /\ schedule.runs < Len(plan.runs) /\ mode = plan.runs[schedule.runs + 1]
  /\ mode = "quick" => ~plan.epochs
  /\ schedule' = [schedule EXCEPT !.runs = @ + 1]
  /\ m' = [NoRun EXCEPT !.pc = IF mode = "full" THEN "gc" ELSE "rewrite",
                        !.mode = mode, !.start = now, !.view = index,
                        !.used = UNION snapshots]
  /\ UNCHANGED <<now, plan, index, packs, written, sessions, snapshots, u, undeleted>>

(* The run stops: the process dies, or a task returns an error.               *)
Abort ==
  /\ m.pc \notin {"idle", "delete"}
  /\ m' = NoRun
  /\ UNCHANGED <<now, plan, index, packs, written, sessions, snapshots, schedule, u, undeleted>>

(* Entries this run writes, of which the ones in newPack need a new pack.     *)
Write(entries, pc) ==
  /\ m' = [m EXCEPT !.pc = pc, !.pending = entries, !.used = {}]
  /\ IF \E c \in Contents : entries[c].pack = NextPack
       THEN /\ written < MaxPacks
            /\ written' = NextPack
            /\ packs' = [packs EXCEPT ![NextPack] = [time |-> now, session |-> 0]]
       ELSE UNCHANGED <<written, packs>>

(* findUnreferencedAndRepairRereferenced, before its flush: undelete what is  *)
(* used again, delete what is unused and old enough.                          *)
SnapshotGC ==
  /\ m.pc = "gc"
  /\ Write([c \in Contents |->
        LET e == m.view[c]
        IN IF e # Absent /\ c \in m.used /\ e.deleted
             THEN [pack |-> NextPack, deleted |-> FALSE, time |-> WriteTime(e)]
           ELSE IF /\ e # Absent /\ c \notin m.used /\ ~e.deleted
                   /\ m.start >= e.time + MinContentAgeSubjectToGC
             THEN [e EXCEPT !.deleted = TRUE, !.time = WriteTime(e)]
           ELSE Absent], "gcflush")
  /\ undeleted' = undeleted \union {c \in m.used : m.view[c] # Absent /\ m.view[c].deleted}
  /\ UNCHANGED <<now, plan, index, sessions, snapshots, schedule, u>>

(* The flush at its end, and ReportRun.                                       *)
SnapshotGCFlush ==
  /\ m.pc = "gcflush"
  /\ index' = Merge(index, m.pending)
  /\ schedule' = [schedule EXCEPT !.gc = @ \union {[start |-> m.start, end |-> now]}]
  /\ m' = [m EXCEPT !.pc = "rewrite", !.view = Merge(m.view, m.pending), !.pending = NoEntries]
  /\ UNCHANGED <<now, plan, packs, written, sessions, snapshots, u, undeleted>>

(* shouldFullRewriteContents, shouldQuickRewriteContents                      *)
ShouldRewrite ==
  LET last == IF m.mode = "full" THEN schedule.rewriteFull
              ELSE Max2(schedule.rewriteFull, schedule.rewriteQuick)
  IN last = 0 \/ Max2(schedule.deleteFull, schedule.deleteQuick) >= last

AfterRewrite == IF m.mode = "full" THEN "drop" ELSE "sessions"

(* RewriteContents up to its flush: contents of two or more short packs that  *)
(* are old enough move to a new pack, deleted ones too.                       *)
RewriteContents ==
  /\ m.pc = "rewrite"
  /\ ShouldRewrite
  /\ LET several == Cardinality({m.view[c].pack : c \in Contents} \ {0}) > 1
     IN Write([c \in Contents |->
          LET e == m.view[c]
          IN IF e # Absent /\ plan.short /\ several /\ now >= e.time + RewriteMinAge
               THEN [e EXCEPT !.pack = NextPack, !.time = WriteTime(e)]
               ELSE Absent], "rewriteflush")
  /\ UNCHANGED <<now, plan, index, sessions, snapshots, schedule, u, undeleted>>

RewriteFlush ==
  /\ m.pc = "rewriteflush"
  /\ index' = Merge(index, m.pending)
  /\ schedule' = IF m.mode = "full" THEN [schedule EXCEPT !.rewriteFull = now]
                                    ELSE [schedule EXCEPT !.rewriteQuick = now]
  /\ m' = [m EXCEPT !.pc = AfterRewrite, !.view = Merge(m.view, m.pending),
                    !.pending = NoEntries]
  /\ UNCHANGED <<now, plan, packs, written, sessions, snapshots, u, undeleted>>

(* A flush succeeds and the process dies before ReportRun has saved it.       *)
CrashBeforeReport ==
  /\ m.pc \in {"gcflush", "rewriteflush"}
  /\ m.pc = "rewriteflush" => schedule.lost < MaxLost
  /\ index' = Merge(index, m.pending)
  /\ schedule' = [schedule EXCEPT !.lost = IF m.pc = "rewriteflush" THEN @ + 1 ELSE @]
  /\ m' = NoRun
  /\ UNCHANGED <<now, plan, packs, written, sessions, snapshots, u, undeleted>>

NotRewriting ==
  /\ m.pc = "rewrite"
  /\ ~ShouldRewrite
  /\ m' = [m EXCEPT !.pc = AfterRewrite]
  /\ UNCHANGED <<now, plan, index, packs, written, sessions, snapshots, schedule, u, undeleted>>

(* A run is a safe first cycle if the latest one began long enough after it.  *)
SafeFirst(r, latest) == latest.start > r.end + MarginBetweenSnapshotGC

(* Mutant: one cycle is enough, as with SafetyNone.                           *)
FindSafeDropTimeNow == now

(* findSafeDropTime: deletions before the latest run that another one         *)
(* followed at a distance; 0 when there is none.                              *)
findSafeDropTime ==
  LET latest == CHOOSE r \in schedule.gc : \A s \in schedule.gc : s.start <= r.start
      safe == {r \in schedule.gc : SafeFirst(r, latest)}
      first == CHOOSE r \in safe : \A s \in safe : s.start <= r.start
  IN IF safe = {} \/ first.start <= DropContentFromIndexExtraMargin THEN 0
     ELSE first.start - DropContentFromIndexExtraMargin

(* dropDeletedContents: by compaction, or by the watermark of the epochs; the *)
(* indexes are loaded again afterwards.                                       *)
DropDeletedContents ==
  /\ m.pc = "drop"
  /\ LET t == findSafeDropTime
         old(e) == e.deleted /\ (e.time < t \/ (plan.epochs /\ e.time = t))
     IN IF t = 0 THEN m' = [m EXCEPT !.pc = "sessions"] /\ UNCHANGED index
        ELSE /\ index' = [c \in Contents |-> IF old(index[c]) THEN Absent ELSE index[c]]
             /\ m' = [m EXCEPT !.pc = "sessions", !.view = index']
  /\ UNCHANGED <<now, plan, packs, written, sessions, snapshots, schedule, u, undeleted>>

(* Mutant: no delay after a rewrite.                                          *)
ShouldDeleteAtOnce == TRUE

(* shouldDeleteOrphanedPacks                                                  *)
ShouldDelete ==
  LET last == Max2(schedule.rewriteFull, schedule.rewriteQuick)
  IN last = 0 \/ now >= last + MinRewriteToOrphanDeletionDelay

(* DeleteUnreferencedPacks lists the live sessions first ...                  *)
ListActiveSessions ==
  /\ m.pc = "sessions"
  /\ IF ShouldDelete
       THEN m' = [m EXCEPT !.pc = "delete",
                           !.active = {s \in SessionIds : sessions[s] # 0 /\
                                         m.start < sessions[s] + SessionExpirationAge}]
       ELSE m' = NoRun
  /\ UNCHANGED <<now, plan, index, packs, written, sessions, snapshots, schedule, u, undeleted>>

(* ... then deletes packs no entry of the run's index mentions, unless they   *)
(* were written after the run began, are too young, or belong to a session.   *)
Orphan(k) ==
  /\ packs[k].time # 0
  /\ \A c \in Contents : m.view[c].pack # k
  /\ m.start >= packs[k].time + PackDeleteMinAge
  /\ packs[k].session \notin m.active

(* Mutant: a quick run deletes only what a quick run orphans.                 *)
HadNoFullRewrite == FALSE

(* hadRecentFullRewrite: a quick run then deletes as a full one does.         *)
hadRecentFullRewrite == schedule.rewriteFull >= schedule.rewriteQuick
FullDeletion == m.mode = "full" \/ hadRecentFullRewrite

(* A full deletion also removes the markers of sessions that are over.        *)
Remove(orphans) ==
  /\ packs' = [k \in PackIds |-> IF k \in orphans THEN [packs[k] EXCEPT !.time = 0] ELSE packs[k]]
  /\ sessions' = [s \in SessionIds |->
       IF FullDeletion /\ s \notin m.active /\ m.start >= sessions[s] + PackDeleteMinAge
         THEN 0 ELSE sessions[s]]
  /\ m' = NoRun

DeleteUnreferencedPacks ==
  /\ m.pc = "delete"
  /\ Remove({k \in PackIds : Orphan(k)})
  /\ schedule' = IF FullDeletion THEN [schedule EXCEPT !.deleteFull = now]
                                 ELSE [schedule EXCEPT !.deleteQuick = now]
  /\ UNCHANGED <<now, plan, index, written, snapshots, u, undeleted>>

(* ... or stops half way.                                                     *)
DeleteSomePacks ==
  /\ m.pc = "delete"
  /\ \E some \in SUBSET {k \in PackIds : Orphan(k)} : Remove(some)
  /\ UNCHANGED <<now, plan, index, written, snapshots, schedule, u, undeleted>>

-----------------------------------------------------------------------------
(* The client: it makes snapshots, and checkpoints of long ones.              *)

NoClient == [view |-> NoEntries, base |-> {}, at |-> 0, refs |-> {}, since |-> 0,
             pending |-> NoEntries, session |-> 0, count |-> 0]

Fresh == u.at # 0 /\ now <= u.at + ViewAge
Seen(c) == Merge(u.view, u.pending)[c]
Started == IF u.refs = {} THEN u.count + 1 ELSE u.count

(* maybeRefreshIndexes: the indexes and the previous snapshots are read.      *)
Refresh ==
  /\ u.at # now
  /\ u' = [u EXCEPT !.view = index, !.base = UNION snapshots, !.at = now]
  /\ UNCHANGED <<now, plan, index, packs, written, sessions, snapshots, schedule, m, undeleted>>

(* A content the index has is not written again, nor is a file that has not   *)
(* changed since the previous snapshot.                                       *)
Reuse(c) ==
  /\ Fresh /\ c \notin u.refs /\ Started <= MaxUploads
  /\ Live(Seen(c)) \/ c \in u.base
  /\ u' = [u EXCEPT !.refs = @ \union {c}, !.count = Started,
                    !.since = IF @ = 0 THEN u.at ELSE @]
  /\ UNCHANGED <<now, plan, index, packs, written, sessions, snapshots, schedule, m, undeleted>>

(* A content it does not have, or has as deleted, goes to a pack of the       *)
(* session, whose marker is written first.                                    *)
WriteContent(c) ==
  /\ Fresh /\ c \notin u.refs /\ Started <= MaxUploads
  /\ ~Live(Seen(c))
  /\ written < MaxPacks
  /\ written' = NextPack
  /\ LET s == Started
     IN /\ sessions' = IF u.session = 0 THEN [sessions EXCEPT ![s] = now] ELSE sessions
        /\ packs' = [packs EXCEPT ![NextPack] = [time |-> now, session |-> s]]
        /\ u' = [u EXCEPT !.refs = @ \union {c}, !.count = s, !.session = s,
                    !.pending[c] = [pack |-> NextPack, deleted |-> FALSE,
                                    time |-> WriteTime(Seen(c))]]
  /\ UNCHANGED <<now, plan, index, snapshots, schedule, m, undeleted>>

(* Flush: the index is written, then the session's marker is removed.         *)
Flushed ==
  /\ index' = Merge(index, u.pending)
  /\ sessions' = [sessions EXCEPT ![u.session] = 0]

FlushIndex ==
  /\ u.pending # NoEntries
  /\ Flushed
  /\ u' = [u EXCEPT !.view = Merge(@, u.pending), !.pending = NoEntries, !.session = 0,
                    !.since = IF @ = 0 THEN now ELSE @]
  /\ UNCHANGED <<now, plan, packs, written, snapshots, schedule, m, undeleted>>

(* The manifest of a snapshot or a checkpoint is flushed with what it needs.  *)
Commit ==
  /\ u.refs # {}
  /\ Flushed
  /\ snapshots' = snapshots \union {u.refs}
  /\ u' = [u EXCEPT !.view = Merge(@, u.pending), !.pending = NoEntries, !.session = 0,
                    !.refs = {}, !.since = 0]
  /\ UNCHANGED <<now, plan, packs, written, schedule, m, undeleted>>

(* The client dies; its packs and its marker stay.                            *)
Crash ==
  /\ u.refs # {}
  /\ u' = [NoClient EXCEPT !.count = u.count]
  /\ UNCHANGED <<now, plan, index, packs, written, sessions, snapshots, schedule, m, undeleted>>

(* ApplyRetentionPolicy deletes a snapshot.                                   *)
Expire(s) ==
  /\ s \in snapshots
  /\ snapshots' = snapshots \ {s}
  /\ UNCHANGED <<now, plan, index, packs, written, sessions, schedule, m, u, undeleted>>

(* Time passes, within the client's two bounds; an index that has become too  *)
(* old is not used again.                                                     *)
Tick ==
  /\ now < plan.end
  /\ m.pc # "idle" => now < m.start + plan.length
  /\ u.since # 0 => now < u.since + UploadWindow
  /\ u.session # 0 => now < sessions[u.session] + PackWindow
  /\ now' = now + 1
  /\ u' = IF now < u.at + ViewAge THEN u
          ELSE [u EXCEPT !.view = NoEntries, !.base = {}, !.at = 0]
  /\ UNCHANGED <<plan, index, packs, written, sessions, snapshots, schedule, m, undeleted>>

Init ==
  /\ now = StartTime
  /\ plan \in Plans
  /\ index = plan.index
  /\ packs = [k \in PackIds |-> [session |-> 0, time |->
                IF \E c \in Contents : plan.index[c].pack = k THEN 1 ELSE 0]]
  /\ written = Cardinality({plan.index[c].pack : c \in Contents} \ {0})
  /\ sessions = [s \in SessionIds |-> 0]
  /\ snapshots = plan.snapshots
  /\ schedule = [runs |-> 0, lost |-> 0, gc |-> {}, rewriteFull |-> 0, rewriteQuick |-> 0,
                 deleteFull |-> 0, deleteQuick |-> 0]
  /\ m = NoRun
  /\ u = NoClient
  /\ undeleted = {}

Maintain ==
  \/ \E mode \in {"full", "quick"} : RunExclusive(mode)
  \/ Abort \/ CrashBeforeReport
  \/ SnapshotGC \/ SnapshotGCFlush
  \/ RewriteContents \/ RewriteFlush \/ NotRewriting
  \/ DropDeletedContents
  \/ ListActiveSessions \/ DeleteUnreferencedPacks \/ DeleteSomePacks

Client ==
  \/ Refresh \/ FlushIndex \/ Commit \/ Crash
  \/ \E c \in plan.files : Reuse(c) \/ WriteContent(c)
  \/ \E s \in snapshots : Expire(s)

Next == Maintain \/ Client \/ Tick

Spec == Init /\ [][Next]_vars

-----------------------------------------------------------------------------
(* Every variable has its type.                                               *)
TypeOK ==
  /\ now \in Times /\ plan \in Plans /\ written \in 0..MaxPacks
  /\ index \in [Contents -> Entry] /\ m.view \in [Contents -> Entry]
  /\ u.view \in [Contents -> Entry] /\ u.pending \in [Contents -> Entry]
  /\ packs \in [PackIds -> [time : Times, session : SessionIds]]
  /\ sessions \in [SessionIds -> Times]
  /\ snapshots \subseteq SUBSET Contents /\ u.refs \subseteq Contents
  /\ undeleted \subseteq Contents

(* What every snapshot in the repository needs can be read: the index has an  *)
(* entry for each of its contents, deleted or not, and the pack is there.     *)
(* The margins of SafetyFull are there for this.                              *)
SnapshotIntact ==
  \A s \in snapshots : \A c \in s : index[c] # Absent /\ packs[index[c].pack].time # 0

(* A client whose index is recent enough finds the packs that index names:    *)
(* "it is only safe to do so after >1hr since the last content rewrite        *)
(* finished to ensure other clients refresh their indexes".  That holds of    *)
(* what rewriting moves; nothing delays the deletion of the pack that a       *)
(* content had before snapshot GC undeleted it.                               *)
ViewReadable ==
  Fresh => \A c \in Contents \ undeleted : Live(u.view[c]) => packs[u.view[c].pack].time # 0

(* A full rewrite is followed by a full deletion before the next quick        *)
(* rewrite: "otherwise next quick maintenance will start a quick rewrite and  *)
(* we'd never delete blobs orphaned by full rewrite".  A deletion in the very *)
(* instant of the rewrite counts as after it.                                 *)
FullDeletionNotStarved ==
  [][m.mode = "quick" /\ m.pc = "rewrite" /\ m'.pc = "rewriteflush"
       => \/ schedule.rewriteFull <= schedule.deleteFull
          \/ schedule.rewriteFull = schedule.deleteQuick]_vars
=============================================================================
