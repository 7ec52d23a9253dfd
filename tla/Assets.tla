-------------------------------- MODULE Assets --------------------------------
(***************************************************************************)
(* Uploaded files: the rows of file_assets, the objects they name in the   *)
(* file storage, and the sweep that brings the two back together           *)
(* (server/internal/modules/asset, with the S3 storage).                   *)
(*                                                                         *)
(* No transaction spans the database and the storage. A file is uploaded   *)
(* to its staging key; completing it reserves a candidate key on the row,  *)
(* copies the bytes there outside any transaction, and in a second         *)
(* transaction publishes that candidate as the final object. Whatever is   *)
(* left over the sweep collects: first row by row the keys a row names and *)
(* no longer needs, then page by page the objects no row names.            *)
(*                                                                         *)
(* A transaction is one action: it holds its project's lock, its draft's   *)
(* and the rows' from before its first check until it commits. What        *)
(* happens outside of one is an action of its own, and so is the landing   *)
(* of a write at the storage: it may come after its sender gave up.        *)
(*                                                                         *)
(* Abstractions. One project, with a draft and an issue in it, one         *)
(* applicant; the workspace, comments and profile images go the same way.  *)
(* A content stands for its bytes, its ETag and its SHA-256. The           *)
(* application's clock and the server's are one, and counts in steps. A    *)
(* row's revision is the row itself: every save of a row changes it, and   *)
(* none changes it back. What a call answers is left out.                  *)
(***************************************************************************)
EXTENDS Integers, Sequences, FiniteSets, FiniteSetsExt, Functions

CONSTANTS Assets,       \* the ids, as numbers in their order
          Callers,      \* the requests in flight
          Contents,     \* what can be uploaded
          Good,         \* the contents that match their declaration
          Purposes,     \* the purposes of the files prepared
          UploadTTL,    \* for how long an upload may be started
          Lease,        \* for how long a candidate may be published
          Settle,       \* and how much later its key may be reclaimed
          KeepUnbound,  \* for how long a file no content shows is kept
          PurgeAfter,   \* for how long a deleted file is kept
          OrphanAge,    \* how old an object must be for the inventory
          MaxCandidates,\* how many candidates a row has at most
          MaxTime,      \* bound: the moments
          MaxKeys,      \* bound: the sealed keys made for an asset
          Plans         \* what there is at first and what comes, with bounds

\* A plan: the files there are at first, complete, by purpose and host; the
\* kinds of requests that come, until when (last), how many at a time
\* (callers); the page size of the sweep and of the scope job (batch); and the
\* bounds on the ids (assets), the moments (time), the sealed keys and the
\* uploads of an asset (keys, uploads), the cycles of the sweep and its
\* attempts that crash or meet an error (cycles, breaks).

\* "image" stands in a description, "attachment" is an ordinary attachment,
\* "cover" is the project's cover image.
AllPurposes == {"image", "attachment", "cover"}

Moments == 0..MaxTime
Never == MaxTime + 1
Nothing == 0    \* no asset

\* The parents a file can have. Everything is in the project.
Parents == {"project", "draft", "issue"}

\* Where a file of a purpose may be.
HostsFor(purpose) == IF purpose = "cover" THEN {"project"} ELSE {"draft", "issue"}

ASSUME AssetsAssumption ==
    /\ IsFiniteSet(Assets) /\ Assets = 1..Cardinality(Assets)
    /\ Good \subseteq Contents
    /\ Purposes \subseteq AllPurposes
    /\ {UploadTTL, Lease, Settle, KeepUnbound, PurgeAfter, OrphanAge} \subseteq Nat
    /\ MaxCandidates \in Nat \ {0} /\ {MaxTime, MaxKeys} \subseteq Nat
    /\ \A p \in Plans :
          /\ p.files \in Seq([purpose : AllPurposes, host : {"project", "draft"}])
          /\ \A a \in DOMAIN p.files : p.files[a].host \in HostsFor(p.files[a].purpose)
          /\ p.files # <<>> => Good # {} /\ p.keys > 0
          /\ Len(p.files) <= p.assets /\ p.batch \in Nat \ {0}
          /\ p.assets \in 0..Cardinality(Assets)
          /\ p.time \in 0..MaxTime /\ p.keys \in 0..MaxKeys

Phases == {"active", "reclaiming"}

\* An object's key: staging keys are u-<asset>-.., sealed ones o-<asset>-..
Key == [kind : {"o", "u"}, asset : Assets, n : 0..MaxKeys]
StagingKey(a) == [kind |-> "u", asset |-> a, n |-> 0]
SealedKey(a, n) == [kind |-> "o", asset |-> a, n |-> n]

\* Where an inventory starts.
Start == [kind |-> "", asset |-> 0, n |-> 0]

\* The order of the inventory.
Before(k, l) ==
    \/ <<k.kind, l.kind>> \in {<<"", "o">>, <<"", "u">>, <<"o", "u">>}
    \/ k.kind = l.kind /\ k.asset < l.asset
    \/ k.kind = l.kind /\ k.asset = l.asset /\ k.n < l.n

VARIABLES
    plan,     \* the one of Plans this behavior is about
    now,      \* the clock
    there,    \* the parents that were created
    ended,    \* when each parent was deleted
    cover,    \* projects.cover_image_asset_id
    rows,     \* file_assets, by id
    ids,      \* how many ids were handed out
    made,     \* how many sealed keys were made for each asset
    uploads,  \* how many uploads of each were started
    store,    \* the objects: key -> content and when it was stored
    puts,     \* uploads on their way
    copies,   \* copies on their way
    call,     \* what each request is doing
    job,      \* the deletion of the project's files: its cursors
    cursor,   \* the sweep's recorded cursor
    step,     \* what the running attempt of the sweep does next
    at,       \* its own cursor
    page,     \* its page: the rows, as listed, or the objects
    facts,    \* the deleted parents of that page
    keys,     \* the keys it is deleting: one row's, or a page's orphans
    dropping, \* the key deleted whose record is still on the row
    due,      \* history: the objects that were due when the cycle began
    cycles, breaks

world == <<plan, now, there, ended, cover>>
storage == <<store, puts, copies>>
sweep == <<cursor, step, at, page, facts, keys, dropping, due, cycles, breaks>>
counts == <<ids, made, uploads>>
vars == <<world, rows, counts, storage, call, job, sweep>>

Standing(p) == p \in there /\ ended[p] = Never

\* Broken: the project may be deleted.
HostStandsItself(h) == Standing(h)

HostStands(h) == Standing("project") /\ Standing(h)

NoCall == [stage |-> "idle"]
NoFinal == [n |-> 0, phase |-> "active", lease |-> 0, sha |-> "none"]
NoCursor == [stage |-> "none", cutoff |-> 0, after |-> Nothing,
             token |-> Start, objectAfter |-> Start]

-----------------------------------------------------------------------------
(* Rows.                                                                     *)

With(f, x, v) == [y \in DOMAIN f \cup {x} |-> IF y = x THEN v ELSE f[y]]

Ordinary(row) == row.purpose = "attachment"
Deleted(row) == row.deleted # Never

\* A verified object stands at the row's final key.
Published(row) == row.uploaded /\ row.final.n # 0 /\ row.final.phase = "active"

NewRow(purpose, host, staging, candidates) ==
    [purpose |-> purpose, host |-> host, created |-> now, bound |-> FALSE,
     deleted |-> Never, uploaded |-> FALSE, staging |-> staging,
     final |-> NoFinal, candidates |-> candidates]

UploadEnds(row) == row.created + UploadTTL
StagingSafe(row) == UploadEnds(row) + Settle
SafeAfter(record) == record.lease + Settle

\* The keys a row names, whatever their phase.
KeysOf(a) ==
    LET row == rows[a]
    IN  {StagingKey(a) : x \in IF row.staging = "none" THEN {} ELSE {1}}
        \cup {SealedKey(a, n) : n \in {row.final.n} \ {0}}
        \cup {SealedKey(a, k.n) : k \in row.candidates}

Referenced == UNION {KeysOf(a) : a \in DOMAIN rows}

Candidate(a) == [n |-> made[a] + 1, phase |-> "active", lease |-> now + Lease]

\* An ordinary attachment is bound with its publication.
Bound(row) == IF Ordinary(row) THEN [row EXCEPT !.bound = TRUE] ELSE row

\* A row is deleted only earlier than it was.
MarkDeleted(row, moment) ==
    IF moment < row.deleted THEN [row EXCEPT !.deleted = moment] ELSE row

\* A request finds the row undeleted, and its host standing.
Accessible(a) ==
    a \in DOMAIN rows /\ ~ Deleted(rows[a]) /\ HostStands(rows[a].host)

-----------------------------------------------------------------------------
(* The beginning.                                                            *)

\* A file that was prepared, uploaded and completed just before.
CompleteFile(file) ==
    Bound([NewRow(file.purpose, file.host, "active", {}) EXCEPT
        !.uploaded = TRUE,
        !.final = [n |-> 1, phase |-> "active", lease |-> Lease,
                   sha |-> CHOOSE content \in Good : TRUE]])

Init ==
    /\ plan \in Plans
    /\ now = 0
    /\ there = {"project", "draft"}
    /\ ended = [p \in Parents |-> Never]
    /\ cover = Nothing
    /\ rows = [a \in DOMAIN plan.files |-> CompleteFile(plan.files[a])]
    /\ ids = Len(plan.files)
    /\ made = [a \in Assets |-> IF a \in DOMAIN plan.files THEN 1 ELSE 0]
    /\ uploads = made
    /\ store = [k \in UNION {{StagingKey(a), SealedKey(a, 1)} : a \in DOMAIN plan.files}
                   |-> [content |-> rows[k.asset].final.sha, stored |-> 0]]
    /\ puts = {}
    /\ copies = {}
    /\ call = [c \in Callers |-> NoCall]
    /\ job = [state |-> "none", after |-> Nothing, saved |-> Nothing]
    /\ cursor = NoCursor
    /\ step = "none"
    /\ at = NoCursor
    /\ page = <<>>
    /\ facts = {}
    /\ keys = {}
    /\ dropping = Start
    /\ due = {}
    /\ cycles = 0
    /\ breaks = 0

-----------------------------------------------------------------------------
(* Uploading.                                                                *)

\* A row with its staging key, and the signed upload.
Prepare(a, purpose, host) ==
    /\ a = ids + 1 /\ a <= plan.assets
    /\ host \in HostsFor(purpose) /\ HostStands(host)
    /\ rows' = With(rows, a, NewRow(purpose, host, "active", {}))
    /\ ids' = a
    /\ UNCHANGED <<world, made, uploads, storage, call, job, sweep>>

\* The client sends an upload while its signature is good.
StartUpload(a, content) ==
    /\ uploads[a] < plan.uploads
    /\ a \in DOMAIN rows /\ rows[a].staging # "none"
    /\ now < UploadEnds(rows[a])
    /\ uploads' = [uploads EXCEPT ![a] = @ + 1]
    /\ puts' = puts \cup {[key |-> StagingKey(a), content |-> content]}
    /\ UNCHANGED <<world, rows, ids, made, store, copies, call, job, sweep>>

\* It lands later, and replaces what is there.
UploadLands(put) ==
    /\ put \in puts
    /\ puts' = puts \ {put}
    /\ store' = With(store, put.key, [content |-> put.content, stored |-> now])
    /\ due' = due \ {put.key}
    /\ UNCHANGED <<world, rows, counts, copies, call, job,
                   cursor, step, at, page, facts, keys, dropping,
                   cycles, breaks>>

\* What a request remembers of its source between its two transactions.
Seen(a) == [asset |-> a, host |-> rows[a].host, bound |-> rows[a].bound,
            final |-> rows[a].final]
NoSource == [asset |-> Nothing]

\* Another request may come.
Idle(c) ==
    /\ call[c].stage = "idle"
    /\ Cardinality({d \in Callers : call[d].stage # "idle"}) < plan.callers

Reserved(a, host, candidate, from, source) ==
    [stage |-> "reserved", asset |-> a, host |-> host, n |-> candidate.n,
     lease |-> candidate.lease, from |-> from, source |-> source, sha |-> "none"]

\* Complete, first transaction: a candidate key for the sealed object. A
\* published file is the answer as it is, and stays so: an ordinary attachment
\* was bound when it was published.
ReserveComplete(c, a) ==
    /\ Idle(c)
    /\ Accessible(a) /\ ~ Published(rows[a])
    /\ rows[a].staging = "active"
    /\ Cardinality(rows[a].candidates) < MaxCandidates
    /\ made[a] < plan.keys
    /\ rows' = [rows EXCEPT ![a].candidates = @ \cup {Candidate(a)}]
    /\ made' = [made EXCEPT ![a] = @ + 1]
    /\ call' = [call EXCEPT ![c] =
           Reserved(a, rows[a].host, Candidate(a), StagingKey(a), NoSource)]
    /\ UNCHANGED <<world, ids, uploads, storage, job, sweep>>

\* Duplicate, first transaction: a new row, with a candidate key and no
\* staging key.
ReserveDuplicate(c, source, a, purpose, host) ==
    /\ Idle(c)
    /\ Accessible(source) /\ Published(rows[source])
    /\ a = ids + 1 /\ a <= plan.assets /\ made[a] < plan.keys
    /\ host \in HostsFor(purpose) /\ HostStands(host)
    /\ rows' = With(rows, a, NewRow(purpose, host, "none", {Candidate(a)}))
    /\ ids' = a
    /\ made' = [made EXCEPT ![a] = @ + 1]
    /\ call' = [call EXCEPT ![c] =
           Reserved(a, host, Candidate(a), SealedKey(source, rows[source].final.n),
                    Seen(source))]
    /\ UNCHANGED <<world, uploads, storage, job, sweep>>

\* The source is read and found good, as it was recorded where it was; then
\* the storage is asked to copy exactly that content to the candidate key.
AskCopy(c) ==
    /\ call[c].stage = "reserved"
    /\ now < call[c].lease
    /\ call[c].from \in DOMAIN store
    /\ LET content == store[call[c].from].content
       IN  /\ content \in Good
           /\ call[c].source # NoSource => content = call[c].source.final.sha
           /\ call' = [call EXCEPT ![c].stage = "asked", ![c].sha = content]
           /\ copies' = copies \cup {[from |-> call[c].from, match |-> content,
                                      to |-> SealedKey(call[c].asset, call[c].n)]}
    /\ UNCHANGED <<world, rows, counts, store, puts, job, sweep>>

\* The storage copies if the source is still that content and the target is
\* not there; otherwise it refuses, and the request ends without a change.
CopyLands(copy) ==
    /\ copy \in copies
    /\ copies' = copies \ {copy}
    /\ IF /\ copy.from \in DOMAIN store /\ store[copy.from].content = copy.match
          /\ copy.to \notin DOMAIN store
       THEN /\ store' = With(store, copy.to, [content |-> copy.match, stored |-> now])
            /\ due' = due \ {copy.to}
       ELSE UNCHANGED <<store, due>>
    /\ UNCHANGED <<world, rows, counts, puts, call, job,
                   cursor, step, at, page, facts, keys, dropping,
                   cycles, breaks>>

\* The copy is read back and found the same.
CheckCopy(c) ==
    /\ call[c].stage = "asked"
    /\ LET to == SealedKey(call[c].asset, call[c].n)
       IN  to \in DOMAIN store /\ store[to].content = call[c].sha
    /\ call' = [call EXCEPT ![c].stage = "sealed"]
    /\ UNCHANGED <<world, rows, counts, storage, job, sweep>>

\* Broken: takes any record of the candidate.
StillNamed(c) == \E k \in rows[call[c].asset].candidates : k.n = call[c].n

\* The candidate is still on the row, active, and its lease not over.
StillReserved(c) ==
    /\ now < call[c].lease
    /\ \E k \in rows[call[c].asset].candidates :
           k.n = call[c].n /\ k.phase = "active" /\ k.lease = call[c].lease

\* A row nobody moved since the reservation.
InPlace(c) == rows[call[c].asset].host = call[c].host

\* Broken: the candidate stays on the row.
PublishCandidateToo(row, c) ==
    Bound([row EXCEPT
        !.final = [n |-> call[c].n, phase |-> "active", lease |-> call[c].lease,
                   sha |-> call[c].sha],
        !.uploaded = TRUE])

PublishCandidate(row, c) ==
    Bound([row EXCEPT
        !.final = [n |-> call[c].n, phase |-> "active", lease |-> call[c].lease,
                   sha |-> call[c].sha],
        !.candidates = {k \in @ : k.n # call[c].n},
        !.uploaded = TRUE])

\* Broken: trusts what the reservation found.
PublishedAsReserved(c) == FALSE

\* Another request published this file first.
AlreadyPublished(c) == Published(rows[call[c].asset])

\* A copy's source is as it was.
SourceStands(c) ==
    LET s == call[c].source
    IN  s # NoSource => Accessible(s.asset) /\ Seen(s.asset) = s /\ Published(rows[s.asset])

\* The second transaction of both.
Finish(c) ==
    /\ call[c].stage = "sealed"
    /\ LET a == call[c].asset
       IN  /\ Accessible(a) /\ InPlace(c)
           /\ ~ AlreadyPublished(c)
           /\ SourceStands(c)
           /\ StillReserved(c)
           /\ rows' = [rows EXCEPT ![a] = PublishCandidate(@, c)]
    /\ call' = [call EXCEPT ![c] = NoCall]
    /\ UNCHANGED <<world, counts, storage, job, sweep>>

\* A request ends without publishing: the storage refused or was too slow, a
\* check failed in one of its steps, it was cancelled or its server stopped.
\* The row keeps the candidate it reserved.
GiveUp(c) ==
    /\ call[c].stage # "idle"
    /\ call' = [call EXCEPT ![c] = NoCall]
    /\ UNCHANGED <<world, rows, counts, storage, job, sweep>>

-----------------------------------------------------------------------------
(* Contents and hosts.                                                       *)

InHost(h) == {a \in DOMAIN rows : rows[a].host = h}
Undeleted(S) == {a \in S : ~ Deleted(rows[a])}
Images(S) == {a \in S : rows[a].purpose = "image"}

\* The issue's description or a comment on it is saved, showing these files.
BindContent(shown) ==
    /\ HostStands("issue")
    /\ shown # {} /\ shown \subseteq Undeleted(InHost("issue"))
    /\ \A a \in shown : Published(rows[a])
    /\ rows' = [a \in DOMAIN rows |->
                   IF a \in shown THEN [rows[a] EXCEPT !.bound = TRUE] ELSE rows[a]]
    /\ UNCHANGED <<world, counts, storage, call, job, sweep>>

\* The draft is saved, showing these images.
SaveDraft(shown) ==
    /\ HostStands("draft")
    /\ shown # {} /\ shown \subseteq Images(Undeleted(InHost("draft")))
    /\ \A a \in shown : Published(rows[a])
    /\ rows' = [a \in DOMAIN rows |->
                   IF a \in shown THEN [rows[a] EXCEPT !.bound = TRUE] ELSE rows[a]]
    /\ UNCHANGED <<world, counts, storage, call, job, sweep>>

\* The draft becomes the issue, and its files go with it: the images it
\* shows and its attachments bound, the other images as they are.
PublishDraft(shown) ==
    LET moving == Undeleted(InHost("draft"))
    IN  /\ HostStands("draft") /\ "issue" \notin there
        /\ shown \subseteq Images(moving)
        /\ \A a \in moving : Published(rows[a])
        /\ there' = there \cup {"issue"}
        /\ ended' = [ended EXCEPT !["draft"] = now]
        /\ rows' = [a \in DOMAIN rows |->
               IF a \in moving
               THEN [rows[a] EXCEPT !.host = "issue",
                                    !.bound = @ \/ a \in shown \/ Ordinary(rows[a])]
               ELSE rows[a]]
        /\ UNCHANGED <<plan, now, cover, counts, storage, call, job, sweep>>

\* The issue is created without a draft.
CreateIssue ==
    /\ Standing("project") /\ "issue" \notin there
    /\ there' = there \cup {"issue"}
    /\ UNCHANGED <<plan, now, ended, cover, rows, counts, storage, call, job, sweep>>

\* The project's cover is replaced or taken off; a new one must be young.
ReplaceCover(next) ==
    /\ Standing("project") /\ next # cover
    /\ next # Nothing =>
           /\ Accessible(next) /\ rows[next].purpose = "cover"
           /\ ~ (rows[next].created < now - KeepUnbound)
           /\ Published(rows[next]) /\ ~ rows[next].bound
    /\ cover' = next
    /\ rows' = [a \in DOMAIN rows |->
           CASE a = next -> [rows[a] EXCEPT !.bound = TRUE]
             [] a = cover -> MarkDeleted(rows[a], now)
             [] OTHER -> rows[a]]
    /\ UNCHANGED <<plan, now, there, ended, counts, storage, call, job, sweep>>

\* A file is deleted, unless a content shows it.
Delete(a) ==
    /\ Accessible(a)
    /\ rows[a].bound => Ordinary(rows[a])
    /\ rows' = [rows EXCEPT ![a] = MarkDeleted(@, now)]
    /\ UNCHANGED <<world, counts, storage, call, job, sweep>>

\* The draft or the issue is deleted, its files with it.
DeleteHost(h) ==
    /\ h \in {"draft", "issue"} /\ HostStands(h)
    /\ ended' = [ended EXCEPT ![h] = now]
    /\ rows' = [a \in DOMAIN rows |->
                   IF rows[a].host = h THEN MarkDeleted(rows[a], now) ELSE rows[a]]
    /\ UNCHANGED <<plan, now, there, cover, counts, storage, call, job, sweep>>

\* The project is deleted; its files are left to a job queued with it.
DeleteProject ==
    /\ Standing("project")
    /\ ended' = [ended EXCEPT !["project"] = now]
    /\ job' = [job EXCEPT !.state = "queued"]
    /\ UNCHANGED <<plan, now, there, cover, rows, counts, storage, call, sweep>>

\* The first plan.batch rows after x.
NextOf(x) ==
    {a \in DOMAIN rows :
        x < a /\ Cardinality({b \in DOMAIN rows : x < b /\ b < a}) < plan.batch}

\* The job marks a page of the project's files in a transaction and goes on
\* to the next, unless its attempt ends there: then its cursor is recorded, or
\* its process stops and the next attempt begins at the last recorded one.
MarkScopePage ==
    /\ job.state = "queued"
    /\ LET ps == NextOf(job.after)
       IN  IF ps = {}
           THEN job' = [job EXCEPT !.state = "done"] /\ UNCHANGED rows
           ELSE /\ rows' = [a \in DOMAIN rows |->
                       IF a \in ps THEN MarkDeleted(rows[a], ended["project"]) ELSE rows[a]]
                /\ LET on == [job EXCEPT !.after = Max(ps)]
                   IN  job' \in {on, [on EXCEPT !.saved = on.after],
                                [job EXCEPT !.after = job.saved]}
    /\ UNCHANGED <<world, counts, storage, call, sweep>>

\* A row goes when it was deleted long ago and names no object any more, and
\* with it the references to it.
PurgeRow(a) ==
    /\ a \in DOMAIN rows
    /\ rows[a].deleted < now - PurgeAfter
    /\ KeysOf(a) = {}
    /\ rows' = Restrict(rows, DOMAIN rows \ {a})
    /\ cover' = IF cover = a THEN Nothing ELSE cover
    /\ UNCHANGED <<plan, now, there, ended, counts, storage, call, job, sweep>>

-----------------------------------------------------------------------------
(* The sweep. One job at a time, in attempts: an attempt works on until its  *)
(* time is over, and then its cursor is recorded; if its process stops, the  *)
(* cursor stays what it was.                                                 *)

FreshCursor == [NoCursor EXCEPT !.stage = "rows", !.cutoff = now]

\* What the inventory takes for old.
Old(k, cutoff) == store[k].stored < cutoff - OrphanAge

ParentsOf(row) == {"project", row.host}

\* When a row counts as deleted: with the first of its parents, by these
\* facts, or once it was kept unbound for too long.
DeletedBy(row, gone, cutoff) ==
    LET stamps == {ended[p] : p \in gone \cap ParentsOf(row)}
    IN  IF stamps # {} THEN MarkDeleted(row, Min(stamps))
        ELSE IF ~ Deleted(row) /\ ~ row.bound /\ row.created < cutoff - KeepUnbound
             THEN MarkDeleted(row, cutoff)
             ELSE row

StagingClaimed(row) ==
    row.staging # "none" /\ (Deleted(row) \/ row.uploaded) /\ StagingSafe(row) < now
FinalClaimed(row, cutoff) ==
    row.final.n # 0 /\ row.deleted < cutoff - PurgeAfter /\ SafeAfter(row.final) < now
CandidateClaimed(record) == SafeAfter(record) < now

\* A row with the records it no longer needs marked, and their keys.
Claim(row, cutoff) ==
    [row EXCEPT
        !.staging = IF StagingClaimed(row) THEN "reclaiming" ELSE @,
        !.final.phase = IF FinalClaimed(row, cutoff) THEN "reclaiming" ELSE @,
        !.candidates = {[k EXCEPT !.phase = IF CandidateClaimed(k) THEN "reclaiming" ELSE @]
                           : k \in @}]
Claims(a, row, cutoff) ==
    {StagingKey(a) : x \in IF StagingClaimed(row) THEN {1} ELSE {}}
    \cup {SealedKey(a, n) : n \in IF FinalClaimed(row, cutoff) THEN {row.final.n} ELSE {}}
    \cup {SealedKey(a, k.n) : k \in {l \in row.candidates : CandidateClaimed(l)}}

\* The row without its record of a deleted object.
RemoveReclaimed(row, k) ==
    IF k.kind = "u" THEN [row EXCEPT !.staging = IF @ = "reclaiming" THEN "none" ELSE @]
    ELSE IF row.final.n = k.n /\ row.final.phase = "reclaiming"
         THEN [row EXCEPT !.final = NoFinal]
         ELSE [row EXCEPT !.candidates = {l \in @ : l.n # k.n \/ l.phase # "reclaiming"}]

\* What a cycle that begins now has to delete.
Due == {k \in DOMAIN store :
           \/ k \notin Referenced /\ Old(k, now)
           \/ \E a \in DOMAIN rows : k \in Claims(a, rows[a], now)}

\* The job is due, or has another attempt.
StartAttempt ==
    /\ step = "none"
    /\ step' = "look"
    /\ IF cursor.stage = "none"
       THEN /\ cycles < plan.cycles
            /\ cycles' = cycles + 1
            /\ at' = FreshCursor
            /\ due' = Due
       ELSE at' = cursor /\ UNCHANGED <<cycles, due>>
    /\ UNCHANGED <<world, rows, counts, storage, call, job,
                   cursor, page, facts, keys, dropping, breaks>>

\* A page of rows is listed, as they are committed.
ListRows ==
    /\ step = "look" /\ at.stage = "rows"
    /\ LET ps == NextOf(at.after)
       IN  IF ps = {}
           THEN /\ at' = [at EXCEPT !.stage = "objects", !.after = Nothing]
                /\ UNCHANGED <<step, page>>
           ELSE step' = "listed" /\ page' = Restrict(rows, ps) /\ UNCHANGED at
    /\ UNCHANGED <<world, rows, counts, storage, call, job,
                   cursor, facts, keys, dropping, due, cycles, breaks>>

\* Which of their parents are deleted. The code asks for one kind of parent after the
\* other; here it is one moment: deletions only come to be, and what was missed, or
\* saved since, is seen when the row is compared again under its lock.
ReadFacts ==
    /\ step = "listed"
    /\ facts' = {p \in UNION {ParentsOf(page[a]) : a \in DOMAIN page} : ended[p] # Never}
    /\ step' = "rows"
    /\ UNCHANGED <<world, rows, counts, storage, call, job,
                   cursor, at, page, keys, dropping, due, cycles, breaks>>

\* The rows of the page still to be cleaned.
Left == {a \in DOMAIN page : at.after < a}
Current == Min(Left)

\* Nobody saved the row since it was listed.
Unchanged(a) == a \in DOMAIN rows /\ rows[a] = page[a]

\* What the row becomes, on what its lock shows.
Cleaned(a) == Claim(DeletedBy(rows[a], facts, at.cutoff), at.cutoff)
ClaimedOf(a) == Claims(a, DeletedBy(rows[a], facts, at.cutoff), at.cutoff)

\* A row is done when its keys are, and a page when its rows are.
Onward ==
    IF keys' # {}
    THEN step' = "reclaim" /\ UNCHANGED <<at, page, facts>>
    ELSE /\ at' = [at EXCEPT !.after = Current]
         /\ IF Left = {Current}
            THEN step' = "look" /\ page' = <<>> /\ facts' = {}
            ELSE step' = "rows" /\ UNCHANGED <<page, facts>>

\* Broken: decides by the row as it was listed.
CleanRowAsListed ==
    /\ step = "rows"
    /\ LET a == Current
           row == [rows[a] EXCEPT !.deleted = DeletedBy(page[a], facts, at.cutoff).deleted]
       IN  /\ rows' = [rows EXCEPT ![a] = Claim(row, at.cutoff)]
           /\ keys' = Claims(a, row, at.cutoff)
    /\ Onward
    /\ UNCHANGED <<world, counts, storage, call, job,
                   cursor, dropping, due, cycles, breaks>>

\* The next row of the page, in a transaction: it is deleted with its
\* parents or for its age, and the keys it no longer needs are claimed. A row
\* that changed is left to the next cycle.
CleanRow ==
    /\ step = "rows"
    /\ LET a == Current
       IN  IF Unchanged(a)
           THEN /\ rows' = [rows EXCEPT ![a] = Cleaned(a)]
                /\ keys' = ClaimedOf(a)
                /\ UNCHANGED due
           ELSE keys' = {} /\ due' = {k \in due : k.asset # a} /\ UNCHANGED rows
    /\ Onward
    /\ UNCHANGED <<world, counts, storage, call, job,
                   cursor, dropping, cycles, breaks>>

\* The storage deletes the object of a claimed key.
DeleteClaimed(k) ==
    /\ step = "reclaim" /\ k \in keys
    /\ step' = "drop"
    /\ dropping' = k
    /\ store' = Restrict(store, DOMAIN store \ {k})
    /\ UNCHANGED <<world, rows, counts, puts, copies, call, job,
                   cursor, at, page, facts, keys, due, cycles, breaks>>

\* The row's record goes, in a transaction of its own.
DropRecord ==
    /\ step = "drop"
    /\ rows' = IF dropping.asset \in DOMAIN rows
               THEN [rows EXCEPT ![dropping.asset] = RemoveReclaimed(@, dropping)]
               ELSE rows
    /\ keys' = keys \ {dropping}
    /\ dropping' = Start
    /\ Onward
    /\ UNCHANGED <<world, counts, storage, call, job,
                   cursor, due, cycles, breaks>>

\* The objects of a page of the inventory.
Listed ==
    {k \in DOMAIN store :
        /\ Before(at.token, k)
        /\ Cardinality({l \in DOMAIN store : Before(at.token, l) /\ Before(l, k)}) < plan.batch}

\* A page is listed, and its old objects picked out.
ListObjects ==
    /\ step = "look" /\ at.stage = "objects"
    /\ step' = "objects"
    /\ keys' = {k \in Listed : Before(at.objectAfter, k) /\ Old(k, at.cutoff)}
    /\ page' = [objects |-> Listed,
                next |-> IF \E k \in DOMAIN store \ Listed : Before(at.token, k)
                         THEN CHOOSE k \in Listed : \A l \in Listed \ {k} : Before(l, k)
                         ELSE Start]
    /\ UNCHANGED <<world, rows, counts, storage, call, job,
                   cursor, at, facts, dropping, due, cycles, breaks>>

\* A page is done when its orphans are deleted; the last one ends the cycle.
PageOnward(key) ==
    IF keys' # {}
    THEN step' = "orphans" /\ at' = [at EXCEPT !.objectAfter = key] /\ UNCHANGED page
    ELSE /\ step' = "look"
         /\ at' = [at EXCEPT !.token = page.next, !.objectAfter = Start,
                             !.stage = IF page.next = Start THEN "done" ELSE "objects"]
         /\ page' = <<>>

\* Broken: forgets the keys being reclaimed.
ReadActiveReferences ==
    /\ step = "objects"
    /\ keys' = keys \ {k \in Referenced : k.kind = "o" \/ rows[k.asset].staging = "active"}
    /\ PageOnward(at.objectAfter)
    /\ UNCHANGED <<world, rows, counts, storage, call, job,
                   cursor, facts, dropping, due, cycles, breaks>>

\* They are looked for among all the keys their assets' rows name, those
\* being reclaimed too; what is not found is an orphan.
ReadReferences ==
    /\ step = "objects"
    /\ keys' = keys \ Referenced
    /\ PageOnward(at.objectAfter)
    /\ UNCHANGED <<world, rows, counts, storage, call, job,
                   cursor, facts, dropping, due, cycles, breaks>>

NextOrphan == CHOOSE k \in keys : \A l \in keys \ {k} : Before(k, l)

DeleteOrphan ==
    /\ step = "orphans"
    /\ store' = Restrict(store, DOMAIN store \ {NextOrphan})
    /\ keys' = keys \ {NextOrphan}
    /\ PageOnward(NextOrphan)
    /\ UNCHANGED <<world, rows, counts, puts, copies, call, job,
                   cursor, facts, dropping, due, cycles, breaks>>

Stopped ==
    /\ step' = "none"
    /\ at' = NoCursor
    /\ page' = <<>>
    /\ facts' = {}
    /\ keys' = {}
    /\ dropping' = Start

\* A cycle is over.
Complete ==
    /\ step = "look" /\ at.stage = "done"
    /\ cursor' = NoCursor
    /\ due' = {}
    /\ Stopped
    /\ UNCHANGED <<world, rows, counts, storage, call, job, cycles, breaks>>

\* The storage fails to delete an object, or says so: what was attempted is
\* passed over until the next cycle, and the attempt ends.
DeletionFails ==
    /\ breaks < plan.breaks
    /\ breaks' = breaks + 1
    /\ \/ /\ step = "reclaim"
          /\ \E k \in keys : store' \in {store, Restrict(store, DOMAIN store \ {k})}
          /\ cursor' = [at EXCEPT !.after = Current]
       \/ /\ step = "orphans"
          /\ store' \in {store, Restrict(store, DOMAIN store \ {NextOrphan})}
          /\ cursor' = [at EXCEPT !.objectAfter = NextOrphan]
    /\ due' = IF step = "reclaim" THEN due \ keys ELSE due \ {NextOrphan}
    /\ Stopped
    /\ UNCHANGED <<world, rows, counts, puts, copies, call, job, cycles>>

\* Broken: passes over the row it is at.
TimeOverPassing ==
    /\ step # "none" /\ breaks < plan.breaks
    /\ breaks' = breaks + 1
    /\ cursor' = IF step \in {"reclaim", "drop"} THEN [at EXCEPT !.after = Current] ELSE at
    /\ Stopped
    /\ UNCHANGED <<world, rows, counts, storage, call, job, due, cycles>>

\* The objects of the page that are kept and come before the next orphan.
Passed ==
    IF step = "orphans"
    THEN {k \in page.objects : Before(at.objectAfter, k) /\ Before(k, NextOrphan)}
    ELSE {}

\* The attempt's time is over: its cursor is recorded, wherever it is.
TimeOver ==
    /\ step # "none" /\ breaks < plan.breaks
    /\ breaks' = breaks + 1
    /\ cursor' \in {at} \cup {[at EXCEPT !.objectAfter = k] : k \in Passed}
    /\ Stopped
    /\ UNCHANGED <<world, rows, counts, storage, call, job, due, cycles>>

\* Its process stops: it is not.
Crash ==
    /\ step # "none" /\ breaks < plan.breaks
    /\ breaks' = breaks + 1
    /\ Stopped
    /\ UNCHANGED <<world, rows, counts, storage, call, job, cursor, due, cycles>>

Tick ==
    /\ now < plan.time
    /\ now' = now + 1
    /\ UNCHANGED <<plan, there, ended, cover, rows, counts, storage, call, job, sweep>>

-----------------------------------------------------------------------------
Comes(kind) == kind \in plan.requests /\ now <= plan.last

Uploading ==
    \/ /\ Comes("prepare")
       /\ \E a \in Assets, purpose \in Purposes, host \in Parents : Prepare(a, purpose, host)
    \/ \E a \in Assets, content \in Contents : StartUpload(a, content)
    \/ \E put \in puts : UploadLands(put)
    \/ \E copy \in copies : CopyLands(copy)

Publishing ==
    \E c \in Callers :
        \/ Comes("complete") /\ \E a \in Assets : ReserveComplete(c, a)
        \/ /\ Comes("duplicate")
           /\ \E source, a \in Assets, purpose \in Purposes, host \in Parents :
                  ReserveDuplicate(c, source, a, purpose, host)
        \/ AskCopy(c) \/ CheckCopy(c) \/ Finish(c)
        \/ now <= plan.last /\ GiveUp(c)

Hosting ==
    \/ Comes("delete") /\ \E a \in Assets : Delete(a)
    \/ Comes("draft") /\ \E shown \in SUBSET DOMAIN rows : SaveDraft(shown)
    \/ Comes("issue") /\ CreateIssue
    \/ Comes("issue") /\ \E shown \in SUBSET DOMAIN rows :
           PublishDraft(shown) \/ BindContent(shown)
    \/ Comes("cover") /\ \E next \in Assets \cup {Nothing} : ReplaceCover(next)
    \/ Comes("host") /\ \E h \in Parents : DeleteHost(h)
    \/ Comes("project") /\ DeleteProject
    \/ MarkScopePage
    \/ \E a \in Assets : PurgeRow(a)

Sweeping ==
    \/ StartAttempt \/ ListRows \/ ReadFacts \/ CleanRow \/ DropRecord
    \/ \E k \in keys : DeleteClaimed(k)
    \/ ListObjects \/ ReadReferences \/ DeleteOrphan
    \/ Complete \/ DeletionFails \/ TimeOver \/ Crash

Next == Uploading \/ Publishing \/ Hosting \/ Sweeping \/ Tick

Spec == Init /\ [][Next]_vars

-----------------------------------------------------------------------------
(* Properties.                                                               *)

Records == [n : 1..MaxKeys, phase : Phases, lease : 0..(MaxTime + Lease)]

\* The shape of a row: the candidates are at most MaxCandidates, and no key
\* is named twice (StorageMetadata.Validate).
RowOk(row) ==
    /\ row.purpose \in AllPurposes /\ row.host \in HostsFor(row.purpose)
    /\ row.created \in Moments /\ row.deleted \in Moments \cup {Never}
    /\ {row.bound, row.uploaded} \subseteq BOOLEAN
    /\ row.staging \in Phases \cup {"none"}
    /\ row.candidates \subseteq Records
    /\ Cardinality(row.candidates) <= MaxCandidates
    /\ Cardinality({k.n : k \in row.candidates} \cup {row.final.n}) = Cardinality(row.candidates) + 1

\* TypeOK: the shape of the rows, of the storage and of the sweep's cursors.
TypeOK ==
    /\ now \in Moments /\ there \subseteq Parents
    /\ ended \in [Parents -> Moments \cup {Never}]
    /\ cover \in Assets \cup {Nothing}
    /\ DOMAIN rows \subseteq 1..ids
    /\ \A a \in DOMAIN rows : RowOk(rows[a])
    /\ DOMAIN store \subseteq Key
    /\ keys \subseteq Key /\ due \subseteq Key
    /\ {cursor.stage, at.stage} \subseteq {"none", "rows", "objects", "done"}

\* KeptIsThere: what a published file promises is in the storage, and is the
\* content that was verified, for as long as the file is not deleted and for
\* the time a deleted one is kept: whatever the sweep, late copies and other
\* completions of the same file do meanwhile.
KeptIsThere ==
    \A a \in DOMAIN rows :
        rows[a].uploaded /\ rows[a].deleted >= now - PurgeAfter =>
            /\ rows[a].final.n # 0
            /\ SealedKey(a, rows[a].final.n) \in DOMAIN store
            /\ store[SealedKey(a, rows[a].final.n)].content = rows[a].final.sha
            /\ rows[a].final.sha \in Good

\* ShownIsKept: an image a content shows, or the project's cover, is not
\* deleted while the draft, the issue or the project it is in stands, and is
\* published; neither the sweep's facts, read before it locked the row, nor
\* its rule for files no content shows may reach it.
ShownIsKept ==
    \A a \in DOMAIN rows :
        /\ rows[a].bound /\ rows[a].purpose # "attachment" /\ HostStands(rows[a].host)
        /\ rows[a].purpose = "cover" => cover = a
        => ~ Deleted(rows[a]) /\ Published(rows[a])

\* PublishedOnce: of two completions of a file only one publishes: the final
\* object of a file never changes until it is collected, and then there is
\* none any more; and a deleted file stays deleted, at no later moment.
PublishedOnce ==
    [][\A a \in DOMAIN rows \cap DOMAIN rows' :
          /\ rows[a].uploaded =>
                 /\ rows'[a].uploaded
                 /\ [rows'[a].final EXCEPT !.phase = "active"]
                        \in {[rows[a].final EXCEPT !.phase = "active"], NoFinal}
          /\ rows'[a].deleted <= rows[a].deleted]_vars

\* OrphansAreNobodys: the sweep takes no object for an orphan that a row
\* names or comes to name, though it deletes long after it listed them.
OrphansAreNobodys == step = "orphans" => keys \cap Referenced = {}

\* SweepIsThorough: a cycle that is over has deleted everything that was due
\* when it began, but for what the storage failed to delete and the rows that
\* were being changed: however often it was interrupted, and from whichever
\* cursor it went on.
SweepIsThorough == at.stage = "done" => due \cap DOMAIN store = {}

\* ScopeIsEmptied: when the job is done, every file of the deleted project
\* counts as deleted, and since no later than the project.
ScopeIsEmptied ==
    job.state = "done" => \A a \in DOMAIN rows : rows[a].deleted <= ended["project"]
===============================================================================
