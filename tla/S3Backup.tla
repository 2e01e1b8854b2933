------------------------------ MODULE S3Backup ------------------------------
(***************************************************************************)
(* The copy of the file archive to S3 (modules/s3backup): s3backupQueue    *)
(* adds the md5 of files to the SQLite table eile, s3backupUpload, one     *)
(* process per S3 node, fetches and uploads them with a few workers,       *)
(* s3backupRequeue clears the marks of failed ones.                        *)
(*                                                                         *)
(* A worker runs alone up to its next await: that is one action.           *)
(* Abstracted: time (whether a second has gone by since the last flush is  *)
(* open), --limit, and contents: an object is good, bad or absent.         *)
(* ratoEilutes is left out: it is 0 exactly while the cursor is null.      *)
(***************************************************************************)
EXTENDS Naturals, FiniteSets

CONSTANTS
    Md5s,        \* the files of the archive
    Big,         \* those over inlineMaxBytes, kept in a file while uploaded
    Nodes,       \* the S3 nodes, all backed up on one host
    Workers,     \* the workers of a process
    MaxRetries,  \* maxRetries
    BatchSize,   \* BATCH_SIZE
    FlushRows,   \* FLUSH_EILUCIU
    MaxClears    \* bound: how often the marks are cleared

ASSUME BackupAssumption ==
    /\ Md5s \subseteq Nat \ {0} /\ IsFiniteSet(Md5s)
    /\ Big \subseteq Md5s
    /\ 0 \notin Nodes /\ Workers # {}
    /\ {MaxRetries, BatchSize, FlushRows} \subseteq Nat \ {0}
    /\ MaxClears \in Nat

VARIABLES
    eile,     \* table eile
    ikelti,   \* table ikelti, per node
    klaidos,  \* table klaidos: bandymai per node and md5
    object,   \* what each node's bucket holds under the key of an md5
    temp,     \* tempDir: the file <md5>.part, who opened it last, is it whole
    process,  \* the upload process of each node
    worker,   \* its workers
    clears,   \* how often marks were cleared
    shared    \* history: the md5 two processes had in one file at a time

tables == <<eile, ikelti, klaidos>>
vars == <<tables, object, temp, process, worker, clears, shared>>

NoMd5  == 0
NoFile == [by |-> NoMd5, whole |-> FALSE]

Off  == [running |-> FALSE, check |-> FALSE, stopping |-> FALSE, baigta |-> FALSE,
         buferis |-> {}, vykdomi |-> {}, poMd5 |-> NoMd5, sekmes |-> {}, klaidos |-> {}]
Idle == [step |-> "idle", md5 |-> NoMd5, good |-> TRUE]

Init ==
    /\ eile = {}
    /\ ikelti = [n \in Nodes |-> {}]
    /\ klaidos = [n \in Nodes |-> [m \in Md5s |-> 0]]
    /\ object = [n \in Nodes |-> [m \in Md5s |-> "none"]]
    /\ temp = [m \in Md5s |-> NoFile]
    /\ process = [n \in Nodes |-> Off]
    /\ worker = [n \in Nodes |-> [w \in Workers |-> Idle]]
    /\ clears = 0
    /\ shared = {}

At(n, w, step) == process[n].running /\ worker[n][w].step = step
Md5(n, w)      == worker[n][w].md5
Becomes(n, w, record) == worker' = [worker EXCEPT ![n][w] = record]

-----------------------------------------------------------------------------
(* The other scripts.                                                      *)

\* s3backupQueue: INSERT ... ON CONFLICT DO NOTHING
Enqueue(m) ==
    /\ m \notin eile
    /\ eile' = eile \union {m}
    /\ UNCHANGED <<ikelti, klaidos, object, temp, process, worker, clears, shared>>

\* valytiKlaidas, by s3backupRequeue at any time
ValytiKlaidas(n) ==
    /\ clears < MaxClears
    /\ \E m \in Md5s : klaidos[n][m] > 0
    /\ klaidos' = [klaidos EXCEPT ![n] = [m \in Md5s |-> 0]]
    /\ clears' = clears + 1
    /\ UNCHANGED <<eile, ikelti, object, temp, process, worker, shared>>

-----------------------------------------------------------------------------
(* The life of an upload process.                                          *)

\* main: isvalytiTemp removes every .part; check is --tikrinti-s3.
Start(n, check) ==
    /\ ~process[n].running
    /\ process' = [process EXCEPT ![n] = [Off EXCEPT !.running = TRUE, !.check = check]]
    /\ temp' = [m \in Md5s |-> NoFile]
    /\ UNCHANGED <<tables, object, worker, clears, shared>>

\* requestStop
RequestStop(n) ==
    /\ process[n].running /\ ~process[n].stopping
    /\ process' = [process EXCEPT ![n].stopping = TRUE]
    /\ UNCHANGED <<tables, object, temp, worker, clears, shared>>

\* An upload cut short may have been completed by S3.
Storing(n) == {w \in Workers : At(n, w, "storing")}
Landed(n, cut) ==
    object' = [object EXCEPT ![n] = [m \in Md5s |->
        IF \E w \in cut : Md5(n, w) = m
          THEN IF \E w \in cut : Md5(n, w) = m /\ worker[n][w].good THEN "good" ELSE "bad"
          ELSE @[m]]]

\* kill -9, a power cut, or a second signal
Crash(n) ==
    /\ process[n].running
    /\ \E cut \in SUBSET Storing(n) : Landed(n, cut)
    /\ process' = [process EXCEPT ![n] = Off]
    /\ worker' = [worker EXCEPT ![n] = [w \in Workers |-> Idle]]
    /\ UNCHANGED <<tables, temp, clears, shared>>

\* flush: one transaction, and only then are the md5 taken out of vykdomi.
Results(n) == process[n].sekmes \union process[n].klaidos
Record(n) ==
    /\ ikelti' = [ikelti EXCEPT ![n] = @ \union process[n].sekmes]
    /\ klaidos' = [klaidos EXCEPT ![n] = [m \in Md5s |->
         IF m \in process[n].klaidos THEN @[m] + 1
         ELSE IF m \in process[n].sekmes THEN 0 ELSE @[m]]]
Flushed(n) ==
    [process[n] EXCEPT !.vykdomi = @ \ Results(n), !.sekmes = {}, !.klaidos = {}]

\* Every worker has returned: the last flush and the end of the process.
Finish(n) ==
    /\ \A w \in Workers : At(n, w, "returned")
    /\ Record(n)
    /\ process' = [process EXCEPT ![n] = Off]
    /\ worker' = [worker EXCEPT ![n] = [w \in Workers |-> Idle]]
    /\ UNCHANGED <<eile, object, temp, clears, shared>>

-----------------------------------------------------------------------------
(* The loop of a worker, darbininkas.                                      *)

\* imtiNeikeltus: a batch in the order of md5, of what the tables hold when
\* the loop comes here, after its flush.
Neikelti(n) == {m \in eile : m \notin ikelti'[n] /\ klaidos'[n][m] < MaxRetries}
Batch(n, po) ==
    LET rows == {m \in Neikelti(n) : m > po}
    IN  {m \in rows : Cardinality({k \in rows : k < m}) < BatchSize}

Biggest(S)  == CHOOSE m \in S : \A k \in S : k <= m
Smallest(S) == CHOOSE m \in S : \A k \in S : m <= k

\* Mutation: rows that are being worked on are taken again.
PapildytiAgain(n, p) ==
    LET ahead == Batch(n, p.poMd5)
        rows  == IF ahead # {} THEN ahead ELSE Batch(n, NoMd5)
    IN  IF rows = {}
          THEN [p EXCEPT !.poMd5 = NoMd5, !.baigta = (p.vykdomi = {})]
          ELSE [p EXCEPT !.poMd5 = Biggest(rows), !.buferis = rows,
                         !.vykdomi = @ \union rows]

\* Mutation: the end of the table is the end of the work.
PapildytiNoWrap(n, p) ==
    LET rows == Batch(n, p.poMd5)
    IN  IF rows = {}
          THEN [p EXCEPT !.baigta = (p.vykdomi = {})]
          ELSE [p EXCEPT !.poMd5 = Biggest(rows), !.buferis = rows \ p.vykdomi,
                         !.vykdomi = @ \union rows]

\* papildyti: the next batch, from the beginning again once past the end;
\* done when there is none and nothing is being worked on.
Papildyti(n, p) ==
    LET ahead == Batch(n, p.poMd5)
        rows  == IF ahead # {} THEN ahead ELSE Batch(n, NoMd5)
    IN  IF rows = {}
          THEN [p EXCEPT !.poMd5 = NoMd5, !.baigta = (p.vykdomi = {})]
          ELSE [p EXCEPT !.poMd5 = Biggest(rows), !.buferis = rows \ p.vykdomi,
                         !.vykdomi = @ \union rows]

\* paimtiKita; a worker that gets nothing and is not done sleeps, idle.
NextItem(n, w, p) ==
    LET q == IF p.buferis = {} /\ ~p.baigta THEN Papildyti(n, p) ELSE p
        m == Smallest(q.buferis)
    IN  IF q.buferis = {}
          THEN /\ process' = [process EXCEPT ![n] = q]
               /\ Becomes(n, w, [Idle EXCEPT !.step = IF q.baigta THEN "returned" ELSE "idle"])
          ELSE /\ process' = [process EXCEPT ![n] = [q EXCEPT !.buferis = @ \ {m}]]
               /\ Becomes(n, w, [Idle EXCEPT !.step = "fetching", !.md5 = m])

\* Mutation: the signal is not looked at between two files.
ContinueDeaf(n, w, p) == NextItem(n, w, p)

\* The condition of the loop: no signal has come.
Continue(n, w, p) ==
    IF p.stopping
      THEN /\ process' = [process EXCEPT ![n] = p]
           /\ Becomes(n, w, [Idle EXCEPT !.step = "returned"])
      ELSE NextItem(n, w, p)

\* After a file: flush, if there are FlushRows results or a second has gone
\* by since the last one ...
FlushAndTake(n, w) ==
    /\ At(n, w, "finished")
    /\ Record(n)
    /\ Continue(n, w, Flushed(n))
    /\ UNCHANGED <<eile, object, temp, clears, shared>>

\* ... or not; nor does a worker that has slept.
Take(n, w) ==
    /\ \/ At(n, w, "idle")
       \/ At(n, w, "finished") /\ Cardinality(Results(n)) < FlushRows
    /\ UNCHANGED <<ikelti, klaidos>>
    /\ Continue(n, w, process[n])
    /\ UNCHANGED <<eile, object, temp, clears, shared>>

-----------------------------------------------------------------------------
(* apdoroti: a file on its way.                                            *)

Succeeds(n, m) == [process EXCEPT ![n].sekmes = @ \union {m}]
Fails(n, m)    == [process EXCEPT ![n].klaidos = @ \union {m}]
Goes(n, w, to) == Becomes(n, w, [worker[n][w] EXCEPT !.step = to])

\* The finally of apdoroti, after the result: a file has yet to be removed.
Leave(n, w) == Goes(n, w, IF Md5(n, w) \in Big THEN "removing" ELSE "finished")

\* arYraS3: the object is there already.
Skip(n, w) ==
    /\ At(n, w, "fetching") /\ process[n].check
    /\ object[n][Md5(n, w)] # "none"
    /\ process' = Succeeds(n, Md5(n, w))
    /\ Goes(n, w, "finished")
    /\ UNCHANGED <<tables, object, temp, clears, shared>>

MayFetch(n, w) ==
    /\ At(n, w, "fetching")
    /\ process[n].check => object[n][Md5(n, w)] = "none"

\* A process of another node has m in its file, to write or to upload.
HasFile(n, m) ==
    \E k \in Nodes \ {n}, v \in Workers :
      Md5(k, v) = m /\ worker[k][v].step \in {"spilling", "spilled", "storing"}

\* The body outgrows inlineMaxBytes: a file is opened, or truncated; its name
\* is that of the md5, in one tempDir for all nodes.
Spill(n, w) ==
    /\ MayFetch(n, w) /\ Md5(n, w) \in Big
    /\ temp' = [temp EXCEPT ![Md5(n, w)] = [by |-> n, whole |-> FALSE]]
    /\ Goes(n, w, "spilling")
    /\ shared' = shared \union {m \in {Md5(n, w)} : HasFile(n, m)}
    /\ UNCHANGED <<tables, object, process, clears>>

\* The whole body has arrived in memory, its md5 is right, and PutObject
\* sends it with ContentMD5.
FetchSmall(n, w) ==
    /\ MayFetch(n, w) /\ Md5(n, w) \notin Big
    /\ Goes(n, w, "storing")
    /\ UNCHANGED <<tables, object, temp, process, clears, shared>>

\* It has been written to the file: whole, unless the file was replaced or
\* truncated by another process since it was opened.
FetchBig(n, w) ==
    /\ At(n, w, "spilling")
    /\ temp' = [temp EXCEPT ![Md5(n, w)].whole = @ \/ temp[Md5(n, w)].by = n]
    /\ Goes(n, w, "spilled")
    /\ UNCHANGED <<tables, object, process, clears, shared>>

\* Mutation: the result is noted before the upload.
ReadTempAndNote(n, w) ==
    /\ At(n, w, "spilled")
    /\ temp[Md5(n, w)] # NoFile
    /\ process' = Succeeds(n, Md5(n, w))
    /\ Becomes(n, w, [worker[n][w] EXCEPT !.step = "storing",
                                          !.good = temp[Md5(n, w)].whole])
    /\ UNCHANGED <<tables, object, temp, clears, shared>>

\* ikeltiDideli reads the file there is now under that name; the time the
\* reading takes is one moment here.
ReadTemp(n, w) ==
    /\ At(n, w, "spilled")
    /\ temp[Md5(n, w)] # NoFile
    /\ Becomes(n, w, [worker[n][w] EXCEPT !.step = "storing",
                                          !.good = temp[Md5(n, w)].whole])
    /\ UNCHANGED <<tables, object, temp, process, clears, shared>>

\* arYraS3 gets another error than 404, HTTP or stream error, wrong md5 of a
\* small file; nuskaitytiTurini removes the file before it throws.
FetchFails(n, w) ==
    /\ At(n, w, "fetching") \/ At(n, w, "spilling")
    /\ process' = Fails(n, Md5(n, w))
    /\ Goes(n, w, "finished")
    /\ temp' = IF At(n, w, "spilling") THEN [temp EXCEPT ![Md5(n, w)] = NoFile] ELSE temp
    /\ UNCHANGED <<tables, object, clears, shared>>

\* S3 confirms.
Store(n, w) ==
    /\ At(n, w, "storing")
    /\ Landed(n, {w})
    /\ process' = Succeeds(n, Md5(n, w))
    /\ Leave(n, w)
    /\ UNCHANGED <<tables, temp, clears, shared>>

\* It does not, though it may have stored the object; or the file on disk
\* had the wrong md5, or is gone.
StoreFails(n, w) ==
    /\ \/ At(n, w, "storing") /\ (Landed(n, {w}) \/ UNCHANGED object)
       \/ At(n, w, "spilled") /\ UNCHANGED object
    /\ process' = Fails(n, Md5(n, w))
    /\ Leave(n, w)
    /\ UNCHANGED <<tables, temp, clears, shared>>

Removed(n, w) ==
    /\ At(n, w, "removing")
    /\ temp' = [temp EXCEPT ![Md5(n, w)] = NoFile]
    /\ Goes(n, w, "finished")
    /\ UNCHANGED <<tables, object, process, clears, shared>>

-----------------------------------------------------------------------------
Fetch(n, w)   == Skip(n, w) \/ Spill(n, w) \/ FetchSmall(n, w) \/ FetchBig(n, w)
                   \/ ReadTemp(n, w) \/ FetchFails(n, w)
Upload(n, w)  == Store(n, w) \/ StoreFails(n, w) \/ Removed(n, w)
Loop(n, w)    == FlushAndTake(n, w) \/ Take(n, w)
Work(n, w)    == Loop(n, w) \/ Fetch(n, w) \/ Upload(n, w)
Manage(n)     == Start(n, TRUE) \/ Start(n, FALSE) \/ RequestStop(n) \/ Crash(n)

Next ==
    \/ \E m \in Md5s : Enqueue(m)
    \/ \E n \in Nodes : Manage(n) \/ ValytiKlaidas(n) \/ Finish(n)
    \/ \E n \in Nodes, w \in Workers : Work(n, w)

Spec == Init /\ [][Next]_vars

\* Timers fire, downloads time out (headersTimeout, bodyTimeout), and the
\* event loop comes to every continuation.  Nobody has to start a process or
\* to stop it, and the flush of FlushAndTake may always come too soon.
Fairness ==
    \A n \in Nodes :
      /\ WF_vars(Finish(n))
      /\ \A w \in Workers : WF_vars(Work(n, w))

FairSpec == Spec /\ Fairness

-----------------------------------------------------------------------------
(* Properties.                                                             *)

Steps == {"idle", "fetching", "spilling", "spilled", "storing", "removing",
          "finished", "returned"}

\* Every table, process and worker is one the code can produce; no md5 has
\* been tried more than maxRetries times.
TypeOK ==
    /\ eile \subseteq Md5s
    /\ ikelti \in [Nodes -> SUBSET Md5s]
    /\ klaidos \in [Nodes -> [Md5s -> 0 .. MaxRetries]]
    /\ object \in [Nodes -> [Md5s -> {"none", "good", "bad"}]]
    /\ temp \in [Md5s -> [by : Nodes \union {NoMd5}, whole : BOOLEAN]]
    /\ process \in [Nodes ->
         [running : BOOLEAN, check : BOOLEAN, stopping : BOOLEAN, baigta : BOOLEAN,
          buferis : SUBSET Md5s, vykdomi : SUBSET Md5s, poMd5 : Md5s \union {NoMd5},
          sekmes : SUBSET Md5s, klaidos : SUBSET Md5s]]
    /\ worker \in [Nodes -> [Workers ->
         [step : Steps, md5 : Md5s \union {NoMd5}, good : BOOLEAN]]]
    /\ clears \in 0 .. MaxClears
    /\ shared \subseteq Md5s

\* The md5 a process is at, from the batch to the unflushed result.
Active(n)  == {w \in Workers : worker[n][w].step \in
                 {"fetching", "spilling", "spilled", "storing"}}
InHand(n)  == process[n].buferis \union {Md5(n, w) : w \in Active(n)} \union Results(n)

\* The table has no lock column; inside a process vykdomi does that work: no
\* md5 is in two workers' hands, or fetched again while its result is not
\* yet in the table, and none is held for nothing (comment of flush), though
\* the cursor wraps round while slow files are still on their way.
OneHolder ==
    \A n \in Nodes :
      /\ process[n].vykdomi = InHand(n)
      /\ \A v, w \in Active(n) : v # w => Md5(n, v) # Md5(n, w)
      /\ \A w \in Active(n) : Md5(n, w) \notin process[n].buferis \union Results(n)

\* What ikelti records is in the bucket, with the right content (README of
\* s3backup: after S3's confirmation only; a wrong md5 is not uploaded),
\* whatever crashed, was left in tempDir, or was uploaded again, unless the
\* processes of two nodes had it in their common file at the same time.
RecordedUnlessShared ==
    \A n \in Nodes : \A m \in ikelti[n] :
      object[n][m] # "none" /\ (m \in shared \/ object[n][m] = "good")

\* A process takes itself for done only when every md5 of the queue is in
\* the bucket or has failed maxRetries times, though rows were added, marks
\* were cleared and workers failed while it went round.
DoneMeansDone ==
    [][\A n \in Nodes : ~process[n].baigta /\ process'[n].baigta =>
         \A m \in eile : m \in ikelti'[n] \/ klaidos'[n][m] = MaxRetries]_vars

\* After a signal the process finishes the files it has begun and ends
\* (README: Ctrl+C).
StopEnds ==
    \A n \in Nodes : process[n].stopping ~> ~process[n].running

\* A running process gets through the queue: every md5 is recorded, or given
\* up, or its last result is waiting to be flushed.
GetsThrough ==
    \A n \in Nodes, m \in Md5s :
      (process[n].running /\ m \in eile) ~>
        \/ ~process[n].running
        \/ m \in ikelti[n] \/ klaidos[n][m] = MaxRetries
        \/ m \in Results(n)

(* What a comment and the README say and the code does not do.             *)

\* It then ends by itself (s3backupRequeue.js: s3backup:upload ends within
\* seconds when what is left has failed too often).
Ends ==
    \A n \in Nodes : process[n].running ~> ~process[n].running

\* What ikelti records of a node is right whatever the other nodes'
\* processes do: the README says one archive can be uploaded to several nodes
\* independently (s3backup/README.md:122-123), and the start removes the
\* .part files as nobody's (s3backupUpload.js:399), but they share them.
RecordedIsStored ==
    \A n \in Nodes : \A m \in ikelti[n] : object[n][m] = "good"
=============================================================================
