-------------------------- MODULE LifecycleProofs --------------------------
(***************************************************************************)
(* Proofs about Lifecycle for any number of workers and threads and any    *)
(* number of failures of pthread_create: type correctness, nothing is      *)
(* deleted under its users, and what can take the process down.            *)
(***************************************************************************)
EXTENDS Lifecycle, Functions, FiniteSetTheorems, TLAPS

-----------------------------------------------------------------------------
(* The inductive invariant                                                 *)

\* Only a thread that pthread_create was called for was born.
Tried == \A t \in Threads : thread[t] # "unborn" => t \in tried

\* The places of an SslThread and of the FeedbackThread.
SslPlaces ==
  \A w \in Workers, s \in Slots :
    thread[<<w, s>>] \in {"unborn", "born", "loop", "exited"}

\* How far a worker got says what became of its APNS object.
Places ==
  \A w \in Workers :
    /\ thread[w] \in {"unborn", "born", "init", "store"} =>
         apns[w] = "null" /\ \A s \in Slots : thread[<<w, s>>] = "unborn"
    /\ thread[w] \in {"start", "loop", "destroy", "stop"} => apns[w] = "up"
    /\ thread[w] = "join" => apns[w] = "done"
    /\ thread[w] = "exited" => apns[w] = "deleted"

\* Every thread that was born was joined or is still to be joined.
Listed ==
  /\ \A w \in Workers : thread[w] # "unborn" => w \in joined \cup Range(workers)
  /\ \A w \in Workers, s \in Slots :
       thread[<<w, s>>] # "unborn" => <<w, s>> \in joined \cup sslThreads[w]

StatsUp ==
  /\ main \in {"create", "wait", "join"} => stats = "up"
  /\ main \in {"delete", "exited"} =>
       \A w \in Workers : thread[w] \in {"unborn", "exited"}
  /\ \A w \in Workers : Running(w) => stats = "up"

ApnsUp ==
  \A w \in Workers, s \in Slots : Running(<<w, s>>) => apns[w] \in {"up", "done"}

\* App::_workers holds each worker that was born and not joined once.
WorkersExact ==
  /\ \A i \in DOMAIN workers :
       workers[i] \in Workers \ joined /\ thread[workers[i]] # "unborn"
  /\ \A i, j \in DOMAIN workers : workers[i] = workers[j] => i = j

\* APNS::_sslThreads holds threads of its own that were born and not joined,
\* and the variable of APNS::start() names one of them.
SslExact ==
  /\ \A w \in Workers : \A id \in sslThreads[w] :
       id \in ({w} \X Slots) \ joined /\ thread[id] # "unborn"
  /\ \A w \in Workers :
       thread[w] = "start" /\ ~Unset(w) => sslThread_id[w] \in sslThreads[w]

\* What is known of the ids, as long as none was left behind by a failure that
\* changed it.
Exact == badId \/ (WorkersExact /\ SslExact)

IInv ==
  /\ TypeOK /\ Tried /\ SslPlaces /\ Places /\ Listed /\ StatsUp /\ ApnsUp
  /\ Exact /\ AbortNeedsCause

-----------------------------------------------------------------------------
(* Threads, and the list of ids                                            *)

LEMMA Kinds ==
  /\ \A w \in Workers : w \in Threads /\ w \in Ids
  /\ \A w \in Workers, s \in Slots :
       /\ <<w, s>> \in Threads /\ <<w, s>> \in Ids
       /\ \A v \in Workers : v # <<w, s>>
       /\ \A v \in Workers, r \in Slots : <<v, r>> = <<w, s>> => v = w /\ r = s
  BY ThreadAssumption DEF Threads, Ssl, Ids

LEMMA ListGrows ==
  ASSUME NEW q \in Seq(Ids), NEW e \in Ids
  PROVE  /\ Append(q, e) \in Seq(Ids)
         /\ DOMAIN Append(q, e) = 1 .. Len(q) + 1 /\ DOMAIN q = 1 .. Len(q)
         /\ Len(q) \in Nat
         /\ \A i \in 1 .. Len(q) : Append(q, e)[i] = q[i]
         /\ Append(q, e)[Len(q) + 1] = e
         /\ Range(Append(q, e)) = Range(q) \cup {e}
<1>1. /\ Append(q, e) \in Seq(Ids) /\ Len(q) \in Nat
      /\ DOMAIN Append(q, e) = 1 .. Len(q) + 1 /\ DOMAIN q = 1 .. Len(q)
      /\ \A i \in 1 .. Len(q) : Append(q, e)[i] = q[i]
      /\ Append(q, e)[Len(q) + 1] = e
  OBVIOUS
<1>2. \A i \in 1 .. Len(q) + 1 : i \in 1 .. Len(q) \/ i = Len(q) + 1
  BY <1>1
<1>3. Range(Append(q, e)) = Range(q) \cup {e}
  <2>1. Len(q) + 1 \in 1 .. Len(q) + 1 /\ 1 .. Len(q) \subseteq 1 .. Len(q) + 1
    BY <1>1
  <2>2. Range(Append(q, e)) \subseteq Range(q) \cup {e}
    BY <1>1, <1>2 DEF Range
  <2>3. Range(q) \cup {e} \subseteq Range(Append(q, e))
    BY <1>1, <2>1 DEF Range
  <2>. QED  BY <2>2, <2>3
<1>. QED  BY <1>1, <1>3

LEMMA ListShrinks ==
  ASSUME NEW q \in Seq(Ids), q # <<>>
  PROVE  /\ Head(q) \in Ids /\ Tail(q) \in Seq(Ids)
         /\ Head(q) = q[1] /\ 1 \in DOMAIN q
         /\ \A i \in DOMAIN Tail(q) :
              i + 1 \in DOMAIN q /\ i + 1 # 1 /\ i \in Nat /\ Tail(q)[i] = q[i + 1]
         /\ Range(q) \subseteq {Head(q)} \cup Range(Tail(q))
<1>1. /\ Len(q) \in Nat \ {0} /\ Len(Tail(q)) = Len(q) - 1
      /\ DOMAIN Tail(q) = 1 .. Len(q) - 1 /\ DOMAIN q = 1 .. Len(q)
      /\ \A i \in 1 .. Len(q) - 1 : Tail(q)[i] = q[i + 1]
      /\ Head(q) = q[1] /\ Head(q) \in Ids /\ Tail(q) \in Seq(Ids)
  OBVIOUS
<1>2. \A i \in 1 .. Len(q) - 1 : i + 1 \in 1 .. Len(q) /\ i + 1 # 1 /\ i \in Nat
  BY <1>1
<1>3. ASSUME NEW i \in DOMAIN q, q[i] # Head(q)  PROVE q[i] \in Range(Tail(q))
  <2>1. i - 1 \in 1 .. Len(q) - 1 /\ (i - 1) + 1 = i  BY <1>1, <1>3
  <2>2. Tail(q)[i - 1] = q[i]  BY <1>1, <2>1
  <2>. QED  BY <1>1, <2>1, <2>2 DEF Range
<1>4. Range(q) \subseteq {Head(q)} \cup Range(Tail(q))  BY <1>3 DEF Range
<1>. QED  BY <1>1, <1>2, <1>4

-----------------------------------------------------------------------------
(* Every step keeps each conjunct                                          *)

LEMMA StepCases ==
  ASSUME Next
  PROVE  \/ StartStats \/ Wait \/ Stop \/ DeleteStats \/ DeleteApp \/ rcvSigint
         \/ JoinWorker
         \/ Alive /\ \E w \in Workers :
              InitThrows(w) \/ \E id \in Ids : JoinSslUndefined(w, id)
         \/ JoinWorkerUndefined
         \/ \E w \in Workers : CreateWorker(w)
         \/ \E w \in Workers, id \in Ids : WorkerFails(w, id)
         \/ \E w \in Workers :
              NewWorker(w) \/ InitStore(w) \/ Started(w) \/ LeaveLoop(w) \/ DestroyStats(w)
         \/ \E w \in Workers : NewApns(w) \/ StopApns(w)
         \/ \E w \in Workers : DeleteWorker(w)
         \/ \E w \in Workers, s \in Slots : CreateSsl(w, s)
         \/ \E w \in Workers, s \in Slots : SslFails(w, s)
         \/ \E w \in Workers, id \in Ids : JoinSsl(w, id)
         \/ \E w \in Workers, s \in Slots : NewController(w, s) \/ EndThread(w, s)
  BY DEF Next, Main, WorkerThread, SslThread

LEMMA TypeStep ==
  ASSUME IInv, Next  PROVE TypeOK'
<1>1. ASSUME StartStats \/ Wait \/ Stop \/ DeleteStats \/ DeleteApp \/ rcvSigint  PROVE TypeOK'
  BY <1>1
  DEF StartStats, Wait, Stop, DeleteStats, DeleteApp, rcvSigint, IInv, TypeOK, mainVars,
      apnsVars, history, Goto
<1>2. ASSUME JoinWorker  PROVE TypeOK'
  BY <1>2, ListShrinks
  DEF JoinWorker, Reap, Joinable, IInv, TypeOK, mainVars, apnsVars, history, Goto
<1>3. ASSUME NEW w \in Workers, InitThrows(w) \/ \E id \in Ids : JoinSslUndefined(w, id)
      PROVE  TypeOK'
  BY <1>3
  DEF JoinSslUndefined, InitThrows, Undefined, Joinable, IInv, TypeOK, mainVars, apnsVars,
      history, Goto
<1>4. ASSUME JoinWorkerUndefined  PROVE TypeOK'
  BY <1>4, ListShrinks
  DEF JoinWorkerUndefined, Undefined, Joinable, IInv, TypeOK, mainVars, apnsVars, history,
      Goto
<1>5. ASSUME NEW w \in Workers, CreateWorker(w)  PROVE TypeOK'
  BY <1>5, Kinds, ListGrows
  DEF CreateWorker, Create, IInv, TypeOK, Tried, mainVars, apnsVars, history, Goto
<1>6. ASSUME NEW w \in Workers, NEW id \in Ids, WorkerFails(w, id)  PROVE TypeOK'
  BY <1>6, Kinds, ListGrows, FailureAssumption
  DEF WorkerFails, CreateFails, IInv, TypeOK, mainVars, apnsVars, history, Goto
<1>7. ASSUME NEW w \in Workers,
             NewWorker(w) \/ InitStore(w) \/ Started(w) \/ LeaveLoop(w) \/ DestroyStats(w)
      PROVE  TypeOK'
  BY <1>7, Kinds
  DEF NewWorker, InitStore, Started, LeaveLoop, DestroyStats, IInv, TypeOK, mainVars,
      apnsVars, history, Goto
<1>8. ASSUME NEW w \in Workers, NewApns(w) \/ StopApns(w)  PROVE TypeOK'
  BY <1>8, Kinds DEF NewApns, StopApns, IInv, TypeOK, mainVars, apnsVars, history, Goto
<1>9. ASSUME NEW w \in Workers, DeleteWorker(w)  PROVE TypeOK'
  BY <1>9, Kinds DEF DeleteWorker, IInv, TypeOK, mainVars, apnsVars, history, Goto
<1>10. ASSUME NEW w \in Workers, NEW s \in Slots, CreateSsl(w, s)  PROVE TypeOK'
  <2>1. <<w, s>> \in Threads /\ <<w, s>> \in Ids /\ <<w, s>> \notin joined
    BY <1>10, Kinds DEF CreateSsl, Create, IInv, Tried, TypeOK
  <2>. QED  BY <1>10, <2>1
            DEF CreateSsl, Create, IInv, TypeOK, mainVars, apnsVars, history, Goto
<1>11. ASSUME NEW w \in Workers, NEW s \in Slots, SslFails(w, s)  PROVE TypeOK'
  BY <1>11, Kinds, FailureAssumption
  DEF SslFails, CreateFails, IInv, TypeOK, mainVars, apnsVars, history, Goto
<1>12. ASSUME NEW w \in Workers, NEW id \in Ids, JoinSsl(w, id)  PROVE TypeOK'
  BY <1>12, Kinds DEF JoinSsl, Reap, Joinable, IInv, TypeOK, mainVars, apnsVars, history, Goto
<1>13. ASSUME NEW w \in Workers, NEW s \in Slots, NewController(w, s) \/ EndThread(w, s)
      PROVE  TypeOK'
  BY <1>13, Kinds DEF NewController, EndThread, IInv, TypeOK, mainVars, apnsVars, history, Goto
<1>. QED  BY <1>1, <1>2, <1>3, <1>4, <1>5, <1>6, <1>7, <1>8, <1>9, <1>10,
         <1>11, <1>12, <1>13, StepCases

LEMMA TriedStep ==
  ASSUME IInv, Next  PROVE Tried'
<1>1. ASSUME StartStats \/ Wait \/ Stop \/ DeleteStats \/ DeleteApp \/ rcvSigint  PROVE Tried'
  BY <1>1
  DEF StartStats, Wait, Stop, DeleteStats, DeleteApp, rcvSigint, IInv, Tried, TypeOK,
      mainVars, apnsVars, history, Goto
<1>2. ASSUME JoinWorker  PROVE Tried'
  BY <1>2, ListShrinks
  DEF JoinWorker, Reap, Joinable, IInv, Tried, TypeOK, mainVars, apnsVars, history, Goto
<1>3. ASSUME NEW w \in Workers, InitThrows(w) \/ \E id \in Ids : JoinSslUndefined(w, id)
      PROVE  Tried'
  BY <1>3
  DEF JoinSslUndefined, InitThrows, Undefined, Joinable, IInv, Tried, TypeOK, mainVars,
      apnsVars, history, Goto
<1>4. ASSUME JoinWorkerUndefined  PROVE Tried'
  BY <1>4, ListShrinks
  DEF JoinWorkerUndefined, Undefined, Joinable, IInv, Tried, TypeOK, mainVars, apnsVars,
      history, Goto
<1>5. ASSUME NEW w \in Workers, CreateWorker(w)  PROVE Tried'
  BY <1>5, Kinds, ListGrows
  DEF CreateWorker, Create, IInv, Tried, TypeOK, mainVars, apnsVars, history, Goto
<1>6. ASSUME NEW w \in Workers, NEW id \in Ids, WorkerFails(w, id)  PROVE Tried'
  BY <1>6, ListGrows
  DEF WorkerFails, CreateFails, IInv, Tried, TypeOK, mainVars, apnsVars, history, Goto
<1>7. ASSUME NEW w \in Workers,
             NewWorker(w) \/ InitStore(w) \/ Started(w) \/ LeaveLoop(w) \/ DestroyStats(w)
      PROVE  Tried'
  BY <1>7, Kinds
  DEF NewWorker, InitStore, Started, LeaveLoop, DestroyStats, IInv, Tried, TypeOK,
      mainVars, apnsVars, history, Goto
<1>8. ASSUME NEW w \in Workers, NewApns(w) \/ StopApns(w)  PROVE Tried'
  BY <1>8, Kinds DEF NewApns, StopApns, IInv, Tried, TypeOK, mainVars, apnsVars, history, Goto
<1>9. ASSUME NEW w \in Workers, DeleteWorker(w)  PROVE Tried'
  BY <1>9, Kinds DEF DeleteWorker, IInv, Tried, TypeOK, mainVars, apnsVars, history, Goto
<1>10. ASSUME NEW w \in Workers, NEW s \in Slots, CreateSsl(w, s)  PROVE Tried'
  BY <1>10, Kinds DEF CreateSsl, Create, IInv, Tried, TypeOK, mainVars, apnsVars, history, Goto
<1>11. ASSUME NEW w \in Workers, NEW s \in Slots, SslFails(w, s)  PROVE Tried'
  BY <1>11, Kinds
  DEF SslFails, CreateFails, IInv, Tried, TypeOK, mainVars, apnsVars, history, Goto
<1>12. ASSUME NEW w \in Workers, NEW id \in Ids, JoinSsl(w, id)  PROVE Tried'
  BY <1>12, Kinds
  DEF JoinSsl, Reap, Joinable, IInv, Tried, TypeOK, mainVars, apnsVars, history, Goto
<1>13. ASSUME NEW w \in Workers, NEW s \in Slots, NewController(w, s) \/ EndThread(w, s)
      PROVE  Tried'
  BY <1>13, Kinds
  DEF NewController, EndThread, IInv, Tried, TypeOK, mainVars, apnsVars, history, Goto
<1>. QED  BY <1>1, <1>2, <1>3, <1>4, <1>5, <1>6, <1>7, <1>8, <1>9, <1>10,
         <1>11, <1>12, <1>13, StepCases

LEMMA SslPlacesStep ==
  ASSUME IInv, Next  PROVE SslPlaces'
<1>. USE DEF SslPlaces
<1>1. ASSUME thread' = thread  PROVE SslPlaces'
  BY <1>1 DEF IInv
<1>2. ASSUME NEW w \in Workers, NEW p, thread' = [thread EXCEPT ![w] = p]  PROVE SslPlaces'
  BY <1>2, Kinds DEF IInv, TypeOK
<1>3. ASSUME NEW w \in Workers, NEW s \in Slots, NEW p \in {"born", "loop", "exited"},
             thread' = [thread EXCEPT ![<<w, s>>] = p]
      PROVE  SslPlaces'
  BY <1>3, Kinds DEF IInv, TypeOK
<1>4. ASSUME \/ StartStats \/ Wait \/ Stop \/ DeleteStats \/ DeleteApp \/ rcvSigint
             \/ JoinWorker \/ JoinWorkerUndefined
             \/ \E w \in Workers : InitThrows(w)
             \/ \E w \in Workers, id \in Ids :
                  JoinSslUndefined(w, id) \/ JoinSsl(w, id) \/ WorkerFails(w, id)
             \/ \E w \in Workers, s \in Slots : SslFails(w, s)
      PROVE  thread' = thread
  BY <1>4 DEF StartStats, Wait, Stop, DeleteStats, DeleteApp, rcvSigint, JoinWorker,
              JoinWorkerUndefined, InitThrows, JoinSslUndefined, Undefined, JoinSsl,
              WorkerFails, SslFails, CreateFails
<1>5. ASSUME NEW w \in Workers,
             \/ CreateWorker(w) \/ NewWorker(w) \/ InitStore(w) \/ Started(w)
             \/ LeaveLoop(w) \/ DestroyStats(w) \/ NewApns(w) \/ StopApns(w)
             \/ DeleteWorker(w)
      PROVE  \E p : thread' = [thread EXCEPT ![w] = p]
  BY <1>5 DEF CreateWorker, Create, NewWorker, InitStore, Started, LeaveLoop, DestroyStats,
              NewApns, StopApns, DeleteWorker, Goto
<1>6. ASSUME NEW w \in Workers, NEW s \in Slots,
             CreateSsl(w, s) \/ NewController(w, s) \/ EndThread(w, s)
      PROVE  \E p \in {"born", "loop", "exited"} : thread' = [thread EXCEPT ![<<w, s>>] = p]
  BY <1>6 DEF CreateSsl, Create, NewController, EndThread, Goto
<1>7. ASSUME NEW w \in Workers,
             \/ CreateWorker(w) \/ NewWorker(w) \/ InitStore(w) \/ Started(w)
             \/ LeaveLoop(w) \/ DestroyStats(w) \/ NewApns(w) \/ StopApns(w)
             \/ DeleteWorker(w)
      PROVE  SslPlaces'
  <2>1. PICK p : thread' = [thread EXCEPT ![w] = p]  BY <1>5, <1>7
  <2>. QED  BY <1>2, <2>1
<1>8. ASSUME NEW w \in Workers, NEW s \in Slots,
             CreateSsl(w, s) \/ NewController(w, s) \/ EndThread(w, s)
      PROVE  SslPlaces'
  <2>1. PICK p \in {"born", "loop", "exited"} : thread' = [thread EXCEPT ![<<w, s>>] = p]
    BY <1>6, <1>8
  <2>. QED  BY <1>3, <2>1
<1>9. thread' = thread => SslPlaces'  BY <1>1
<1>. HIDE DEF SslPlaces
<1>. QED  BY <1>4, <1>7, <1>8, <1>9, StepCases

LEMMA PlacesStep ==
  ASSUME IInv, Next  PROVE Places'
<1>1. ASSUME StartStats \/ Wait \/ Stop \/ DeleteStats \/ DeleteApp \/ rcvSigint  PROVE Places'
  BY <1>1
  DEF StartStats, Wait, Stop, DeleteStats, DeleteApp, rcvSigint, IInv, Places, TypeOK,
      mainVars, apnsVars, history, Goto
<1>2. ASSUME JoinWorker  PROVE Places'
  BY <1>2, ListShrinks
  DEF JoinWorker, Reap, Joinable, IInv, Places, TypeOK, mainVars, apnsVars, history, Goto
<1>3. ASSUME NEW w \in Workers, InitThrows(w) \/ \E id \in Ids : JoinSslUndefined(w, id)
      PROVE  Places'
  BY <1>3
  DEF JoinSslUndefined, InitThrows, Undefined, Joinable, IInv, Places, TypeOK, mainVars,
      apnsVars, history, Goto
<1>4. ASSUME JoinWorkerUndefined  PROVE Places'
  BY <1>4, ListShrinks
  DEF JoinWorkerUndefined, Undefined, Joinable, IInv, Places, TypeOK, mainVars, apnsVars,
      history, Goto
<1>5. ASSUME NEW w \in Workers, CreateWorker(w)  PROVE Places'
  BY <1>5, Kinds
  DEF CreateWorker, Create, IInv, Places, TypeOK, Tried, mainVars, apnsVars, history, Goto
<1>6. ASSUME NEW w \in Workers, NEW id \in Ids, WorkerFails(w, id)  PROVE Places'
  BY <1>6, ListGrows
  DEF WorkerFails, CreateFails, IInv, Places, TypeOK, mainVars, apnsVars, history, Goto
<1>7. ASSUME NEW w \in Workers,
             NewWorker(w) \/ InitStore(w) \/ Started(w) \/ LeaveLoop(w) \/ DestroyStats(w)
      PROVE  Places'
  BY <1>7, Kinds
  DEF NewWorker, InitStore, Started, LeaveLoop, DestroyStats, IInv, Places, TypeOK,
      mainVars, apnsVars, history, Goto
<1>8. ASSUME NEW w \in Workers, NewApns(w) \/ StopApns(w)  PROVE Places'
  BY <1>8, Kinds DEF NewApns, StopApns, IInv, Places, TypeOK, mainVars, apnsVars, history, Goto
<1>9. ASSUME NEW w \in Workers, DeleteWorker(w)  PROVE Places'
  BY <1>9, Kinds DEF DeleteWorker, IInv, Places, TypeOK, mainVars, apnsVars, history, Goto
<1>10. ASSUME NEW w \in Workers, NEW s \in Slots, CreateSsl(w, s)  PROVE Places'
  BY <1>10, Kinds DEF CreateSsl, Create, IInv, Places, TypeOK, mainVars, apnsVars, history, Goto
<1>11. ASSUME NEW w \in Workers, NEW s \in Slots, SslFails(w, s)  PROVE Places'
  BY <1>11, Kinds
  DEF SslFails, CreateFails, IInv, Places, TypeOK, mainVars, apnsVars, history, Goto
<1>12. ASSUME NEW w \in Workers, NEW id \in Ids, JoinSsl(w, id)  PROVE Places'
  BY <1>12, Kinds
  DEF JoinSsl, Reap, Joinable, IInv, Places, TypeOK, mainVars, apnsVars, history, Goto
<1>13. ASSUME NEW w \in Workers, NEW s \in Slots, NewController(w, s) \/ EndThread(w, s)
      PROVE  Places'
  BY <1>13, Kinds
  DEF NewController, EndThread, IInv, Places, TypeOK, mainVars, apnsVars, history, Goto
<1>. QED  BY <1>1, <1>2, <1>3, <1>4, <1>5, <1>6, <1>7, <1>8, <1>9, <1>10,
         <1>11, <1>12, <1>13, StepCases

LEMMA ListedStep ==
  ASSUME IInv, Next  PROVE Listed'
<1>1. ASSUME StartStats \/ Wait \/ Stop \/ DeleteStats \/ DeleteApp \/ rcvSigint  PROVE Listed'
  BY <1>1
  DEF StartStats, Wait, Stop, DeleteStats, DeleteApp, rcvSigint, IInv, Listed, TypeOK,
      mainVars, apnsVars, history, Goto
<1>2. ASSUME JoinWorker  PROVE Listed'
  <2>1. Range(workers) \subseteq {Head(workers)} \cup Range(workers')
    BY <1>2, ListShrinks DEF JoinWorker, IInv, TypeOK
  <2>2. \A w \in Workers : w = Head(workers) /\ thread[w] # "unborn" => w \in joined'
    BY <1>2, Kinds DEF JoinWorker, Reap, Joinable
  <2>3. joined \subseteq joined' /\ UNCHANGED <<thread, sslThreads>>
    BY <1>2 DEF JoinWorker, Reap, apnsVars
  <2>. QED  BY <2>1, <2>2, <2>3 DEF IInv, Listed
<1>3. ASSUME NEW w \in Workers, InitThrows(w) \/ \E id \in Ids : JoinSslUndefined(w, id)
      PROVE  Listed'
  BY <1>3
  DEF JoinSslUndefined, InitThrows, Undefined, Joinable, IInv, Listed, TypeOK, mainVars,
      apnsVars, history, Goto
<1>4. ASSUME JoinWorkerUndefined  PROVE Listed'
  BY <1>4, ListShrinks
  DEF JoinWorkerUndefined, Undefined, Joinable, IInv, Listed, TypeOK, mainVars, apnsVars,
      history, Goto
<1>5. ASSUME NEW w \in Workers, CreateWorker(w)  PROVE Listed'
  BY <1>5, Kinds, ListGrows
  DEF CreateWorker, Create, IInv, Listed, TypeOK, mainVars, apnsVars, history, Goto
<1>6. ASSUME NEW w \in Workers, NEW id \in Ids, WorkerFails(w, id)  PROVE Listed'
  BY <1>6, ListGrows
  DEF WorkerFails, CreateFails, IInv, Listed, TypeOK, mainVars, apnsVars, history, Goto
<1>7. ASSUME NEW w \in Workers,
             NewWorker(w) \/ InitStore(w) \/ Started(w) \/ LeaveLoop(w) \/ DestroyStats(w)
      PROVE  Listed'
  BY <1>7, Kinds
  DEF NewWorker, InitStore, Started, LeaveLoop, DestroyStats, IInv, Listed, TypeOK,
      mainVars, apnsVars, history, Goto
<1>8. ASSUME NEW w \in Workers, NewApns(w) \/ StopApns(w)  PROVE Listed'
  BY <1>8, Kinds DEF NewApns, StopApns, IInv, Listed, TypeOK, mainVars, apnsVars, history, Goto
<1>9. ASSUME NEW w \in Workers, DeleteWorker(w)  PROVE Listed'
  BY <1>9, Kinds DEF DeleteWorker, IInv, Listed, TypeOK, mainVars, apnsVars, history, Goto
<1>10. ASSUME NEW w \in Workers, NEW s \in Slots, CreateSsl(w, s)  PROVE Listed'
  BY <1>10, Kinds DEF CreateSsl, Create, IInv, Listed, TypeOK, mainVars, apnsVars, history, Goto
<1>11. ASSUME NEW w \in Workers, NEW s \in Slots, SslFails(w, s)  PROVE Listed'
  BY <1>11, Kinds
  DEF SslFails, CreateFails, IInv, Listed, TypeOK, mainVars, apnsVars, history, Goto
<1>12. ASSUME NEW w \in Workers, NEW id \in Ids, JoinSsl(w, id)  PROVE Listed'
  BY <1>12, Kinds
  DEF JoinSsl, Reap, Joinable, IInv, Listed, TypeOK, mainVars, apnsVars, history, Goto
<1>13. ASSUME NEW w \in Workers, NEW s \in Slots, NewController(w, s) \/ EndThread(w, s)
      PROVE  Listed'
  BY <1>13, Kinds
  DEF NewController, EndThread, IInv, Listed, TypeOK, mainVars, apnsVars, history, Goto
<1>. QED  BY <1>1, <1>2, <1>3, <1>4, <1>5, <1>6, <1>7, <1>8, <1>9, <1>10,
         <1>11, <1>12, <1>13, StepCases

LEMMA StatsStep ==
  ASSUME IInv, Next  PROVE StatsUp'
<1>1. ASSUME StartStats \/ Wait \/ Stop \/ DeleteStats \/ DeleteApp \/ rcvSigint  PROVE StatsUp'
  <2>1. ASSUME DeleteStats  PROVE \A w \in Workers : thread[w] \in {"unborn", "exited"}
    <3>1. Range(workers) = {}  BY <2>1 DEF DeleteStats, Range
    <3>. QED  BY <2>1, <3>1, Kinds DEF IInv, Listed, TypeOK
  <2>. QED  BY <1>1, <2>1
            DEF StartStats, Wait, Stop, DeleteStats, DeleteApp, rcvSigint, IInv, StatsUp,
                TypeOK, Running, mainVars, apnsVars, history, Goto
<1>2. ASSUME JoinWorker  PROVE StatsUp'
  BY <1>2, ListShrinks
  DEF JoinWorker, Reap, Joinable, IInv, StatsUp, TypeOK, Running, mainVars, apnsVars,
      history, Goto
<1>3. ASSUME NEW w \in Workers, InitThrows(w) \/ \E id \in Ids : JoinSslUndefined(w, id)
      PROVE  StatsUp'
  BY <1>3
  DEF JoinSslUndefined, InitThrows, Undefined, Joinable, IInv, StatsUp, TypeOK, Running,
      mainVars, apnsVars, history, Goto
<1>4. ASSUME JoinWorkerUndefined  PROVE StatsUp'
  BY <1>4, ListShrinks
  DEF JoinWorkerUndefined, Undefined, Joinable, IInv, StatsUp, TypeOK, Running, mainVars,
      apnsVars, history, Goto
<1>5. ASSUME NEW w \in Workers, CreateWorker(w)  PROVE StatsUp'
  BY <1>5, Kinds, ListGrows
  DEF CreateWorker, Create, IInv, StatsUp, TypeOK, Running, mainVars, apnsVars, history,
      Goto
<1>6. ASSUME NEW w \in Workers, NEW id \in Ids, WorkerFails(w, id)  PROVE StatsUp'
  BY <1>6, ListGrows
  DEF WorkerFails, CreateFails, IInv, StatsUp, TypeOK, Running, mainVars, apnsVars,
      history, Goto
<1>7. ASSUME NEW w \in Workers,
             NewWorker(w) \/ InitStore(w) \/ Started(w) \/ LeaveLoop(w) \/ DestroyStats(w)
      PROVE  StatsUp'
  BY <1>7, Kinds
  DEF NewWorker, InitStore, Started, LeaveLoop, DestroyStats, IInv, StatsUp, TypeOK,
      Running, mainVars, apnsVars, history, Goto
<1>8. ASSUME NEW w \in Workers, NewApns(w) \/ StopApns(w)  PROVE StatsUp'
  BY <1>8, Kinds
  DEF NewApns, StopApns, IInv, StatsUp, TypeOK, Running, mainVars, apnsVars, history, Goto
<1>9. ASSUME NEW w \in Workers, DeleteWorker(w)  PROVE StatsUp'
  BY <1>9, Kinds
  DEF DeleteWorker, IInv, StatsUp, TypeOK, Running, mainVars, apnsVars, history, Goto
<1>10. ASSUME NEW w \in Workers, NEW s \in Slots, CreateSsl(w, s)  PROVE StatsUp'
  BY <1>10, Kinds
  DEF CreateSsl, Create, IInv, StatsUp, TypeOK, Running, mainVars, apnsVars, history, Goto
<1>11. ASSUME NEW w \in Workers, NEW s \in Slots, SslFails(w, s)  PROVE StatsUp'
  BY <1>11, Kinds
  DEF SslFails, CreateFails, IInv, StatsUp, TypeOK, Running, mainVars, apnsVars, history,
      Goto
<1>12. ASSUME NEW w \in Workers, NEW id \in Ids, JoinSsl(w, id)  PROVE StatsUp'
  BY <1>12, Kinds
  DEF JoinSsl, Reap, Joinable, IInv, StatsUp, TypeOK, Running, mainVars, apnsVars, history,
      Goto
<1>13. ASSUME NEW w \in Workers, NEW s \in Slots, NewController(w, s) \/ EndThread(w, s)
      PROVE  StatsUp'
  BY <1>13, Kinds
  DEF NewController, EndThread, IInv, StatsUp, TypeOK, Running, mainVars, apnsVars,
      history, Goto
<1>. QED  BY <1>1, <1>2, <1>3, <1>4, <1>5, <1>6, <1>7, <1>8, <1>9, <1>10,
         <1>11, <1>12, <1>13, StepCases

LEMMA ApnsStep ==
  ASSUME IInv, Next  PROVE ApnsUp'
<1>1. ASSUME StartStats \/ Wait \/ Stop \/ DeleteStats \/ DeleteApp \/ rcvSigint  PROVE ApnsUp'
  BY <1>1
  DEF StartStats, Wait, Stop, DeleteStats, DeleteApp, rcvSigint, IInv, ApnsUp, TypeOK,
      Running, mainVars, apnsVars, history, Goto
<1>2. ASSUME JoinWorker  PROVE ApnsUp'
  BY <1>2, ListShrinks
  DEF JoinWorker, Reap, Joinable, IInv, ApnsUp, TypeOK, Running, mainVars, apnsVars,
      history, Goto
<1>3. ASSUME NEW w \in Workers, InitThrows(w) \/ \E id \in Ids : JoinSslUndefined(w, id)
      PROVE  ApnsUp'
  BY <1>3
  DEF JoinSslUndefined, InitThrows, Undefined, Joinable, IInv, ApnsUp, TypeOK, Running,
      mainVars, apnsVars, history, Goto
<1>4. ASSUME JoinWorkerUndefined  PROVE ApnsUp'
  BY <1>4, ListShrinks
  DEF JoinWorkerUndefined, Undefined, Joinable, IInv, ApnsUp, TypeOK, Running, mainVars,
      apnsVars, history, Goto
<1>5. ASSUME NEW w \in Workers, CreateWorker(w)  PROVE ApnsUp'
  BY <1>5, Kinds, ListGrows
  DEF CreateWorker, Create, IInv, ApnsUp, TypeOK, Running, mainVars, apnsVars, history,
      Goto
<1>6. ASSUME NEW w \in Workers, NEW id \in Ids, WorkerFails(w, id)  PROVE ApnsUp'
  BY <1>6, ListGrows
  DEF WorkerFails, CreateFails, IInv, ApnsUp, TypeOK, Running, mainVars, apnsVars, history,
      Goto
<1>7. ASSUME NEW w \in Workers,
             NewWorker(w) \/ InitStore(w) \/ Started(w) \/ LeaveLoop(w) \/ DestroyStats(w)
      PROVE  ApnsUp'
  BY <1>7, Kinds
  DEF NewWorker, InitStore, Started, LeaveLoop, DestroyStats, IInv, ApnsUp, TypeOK,
      Running, mainVars, apnsVars, history, Goto
<1>8. ASSUME NEW w \in Workers, NewApns(w) \/ StopApns(w)  PROVE ApnsUp'
  BY <1>8, Kinds
  DEF NewApns, StopApns, IInv, ApnsUp, TypeOK, Running, mainVars, apnsVars, history, Goto
<1>9. ASSUME NEW w \in Workers, DeleteWorker(w)  PROVE ApnsUp'
  BY <1>9, Kinds
  DEF DeleteWorker, IInv, ApnsUp, TypeOK, Running, Listed, mainVars, apnsVars, history,
      Goto
<1>10. ASSUME NEW w \in Workers, NEW s \in Slots, CreateSsl(w, s)  PROVE ApnsUp'
  BY <1>10, Kinds
  DEF CreateSsl, Create, IInv, ApnsUp, TypeOK, Running, Places, mainVars, apnsVars,
      history, Goto
<1>11. ASSUME NEW w \in Workers, NEW s \in Slots, SslFails(w, s)  PROVE ApnsUp'
  BY <1>11, Kinds
  DEF SslFails, CreateFails, IInv, ApnsUp, TypeOK, Running, mainVars, apnsVars, history,
      Goto
<1>12. ASSUME NEW w \in Workers, NEW id \in Ids, JoinSsl(w, id)  PROVE ApnsUp'
  BY <1>12, Kinds
  DEF JoinSsl, Reap, Joinable, IInv, ApnsUp, TypeOK, Running, mainVars, apnsVars, history,
      Goto
<1>13. ASSUME NEW w \in Workers, NEW s \in Slots, NewController(w, s) \/ EndThread(w, s)
      PROVE  ApnsUp'
  BY <1>13, Kinds
  DEF NewController, EndThread, IInv, ApnsUp, TypeOK, Running, mainVars, apnsVars, history,
      Goto
<1>. QED  BY <1>1, <1>2, <1>3, <1>4, <1>5, <1>6, <1>7, <1>8, <1>9, <1>10,
         <1>11, <1>12, <1>13, StepCases

LEMMA WorkersStep ==
  ASSUME IInv, Next  PROVE badId' \/ WorkersExact'
<1>1. ASSUME StartStats \/ Wait \/ Stop \/ DeleteStats \/ DeleteApp \/ rcvSigint
      PROVE  badId' \/ WorkersExact'
  BY <1>1
  DEF StartStats, Wait, Stop, DeleteStats, DeleteApp, rcvSigint, IInv, Exact, WorkersExact,
      TypeOK, mainVars, apnsVars, history, Goto
<1>2. ASSUME JoinWorker  PROVE badId' \/ WorkersExact'
  <2>1. \A i \in DOMAIN workers' : i + 1 \in DOMAIN workers /\ i + 1 # 1 /\ i \in Nat
                                  /\ workers'[i] = workers[i + 1]
    BY <1>2, ListShrinks DEF JoinWorker, IInv, TypeOK
  <2>2. 1 \in DOMAIN workers /\ Head(workers) = workers[1]
    BY <1>2, ListShrinks DEF JoinWorker, IInv, TypeOK
  <2>3. joined' \subseteq joined \cup {Head(workers)} /\ UNCHANGED <<thread, badId>>
    BY <1>2 DEF JoinWorker, Reap, apnsVars, history
  <2>4. CASE ~badId
    <3>1. \A i \in DOMAIN workers' :
            workers'[i] \in Workers \ joined' /\ thread'[workers'[i]] # "unborn"
      BY <2>1, <2>2, <2>3, <2>4 DEF IInv, Exact, WorkersExact
    <3>2. \A i, j \in DOMAIN workers' : workers'[i] = workers'[j] => i = j
      <4>1. \A i, j \in Nat : i + 1 = j + 1 => i = j  OBVIOUS
      <4>. QED  BY <4>1, <2>1, <2>4 DEF IInv, Exact, WorkersExact
    <3>. QED  BY <3>1, <3>2 DEF WorkersExact
  <2>. QED  BY <2>3, <2>4
<1>3. ASSUME NEW w \in Workers, InitThrows(w) \/ \E id \in Ids : JoinSslUndefined(w, id)
      PROVE  badId' \/ WorkersExact'
  BY <1>3
  DEF JoinSslUndefined, InitThrows, Undefined, Joinable, IInv, Exact, WorkersExact, TypeOK,
      mainVars, apnsVars, history, Goto
<1>4. ASSUME JoinWorkerUndefined  PROVE badId' \/ WorkersExact'
  BY <1>4, ListShrinks
  DEF JoinWorkerUndefined, Undefined, Joinable, IInv, Exact, WorkersExact, TypeOK,
      mainVars, apnsVars, history, Goto
<1>5. ASSUME NEW w \in Workers, CreateWorker(w)  PROVE badId' \/ WorkersExact'
  <2>. DEFINE n == Len(workers) + 1
  <2>1. /\ \A i \in DOMAIN workers' :
             (i \in DOMAIN workers /\ workers'[i] = workers[i]) \/ i = n
        /\ workers'[n] = w
    BY <1>5, Kinds, ListGrows DEF CreateWorker, IInv, TypeOK
  <2>2. /\ thread[w] = "unborn" /\ w \notin joined /\ thread'[w] = "born"
        /\ \A t \in Threads : t # w => thread'[t] = thread[t]
        /\ UNCHANGED <<joined, badId>>
    BY <1>5, Kinds DEF CreateWorker, Create, Goto, history, IInv, Tried, TypeOK
  <2>3. CASE ~badId
    <3>1. \A i \in DOMAIN workers : workers[i] # w /\ workers[i] \in Workers \ joined
                                   /\ thread'[workers[i]] # "unborn"
      BY <2>2, <2>3, Kinds DEF IInv, Exact, WorkersExact
    <3>2. \A i \in DOMAIN workers' :
            workers'[i] \in Workers \ joined' /\ thread'[workers'[i]] # "unborn"
      BY <2>1, <2>2, <3>1
    <3>3. \A i, j \in DOMAIN workers' : workers'[i] = workers'[j] => i = j
      BY <2>1, <2>3, <3>1 DEF IInv, Exact, WorkersExact
    <3>. QED  BY <3>2, <3>3 DEF WorkersExact
  <2>. QED  BY <2>2, <2>3
<1>6. ASSUME NEW w \in Workers, NEW id \in Ids, WorkerFails(w, id)
      PROVE  badId' \/ WorkersExact'
  BY <1>6, ListGrows
  DEF WorkerFails, CreateFails, IInv, Exact, WorkersExact, TypeOK, mainVars, apnsVars,
      history, Goto
<1>7. ASSUME NEW w \in Workers,
             NewWorker(w) \/ InitStore(w) \/ Started(w) \/ LeaveLoop(w) \/ DestroyStats(w)
      PROVE  badId' \/ WorkersExact'
  BY <1>7, Kinds
  DEF NewWorker, InitStore, Started, LeaveLoop, DestroyStats, IInv, Exact, WorkersExact,
      TypeOK, mainVars, apnsVars, history, Goto
<1>8. ASSUME NEW w \in Workers, NewApns(w) \/ StopApns(w)  PROVE badId' \/ WorkersExact'
  BY <1>8, Kinds
  DEF NewApns, StopApns, IInv, Exact, WorkersExact, TypeOK, mainVars, apnsVars, history,
      Goto
<1>9. ASSUME NEW w \in Workers, DeleteWorker(w)  PROVE badId' \/ WorkersExact'
  BY <1>9, Kinds
  DEF DeleteWorker, IInv, Exact, WorkersExact, TypeOK, mainVars, apnsVars, history, Goto
<1>10. ASSUME NEW w \in Workers, NEW s \in Slots, CreateSsl(w, s)  PROVE badId' \/ WorkersExact'
  BY <1>10, Kinds
  DEF CreateSsl, Create, IInv, Exact, WorkersExact, TypeOK, mainVars, apnsVars, history,
      Goto
<1>11. ASSUME NEW w \in Workers, NEW s \in Slots, SslFails(w, s)  PROVE badId' \/ WorkersExact'
  BY <1>11, Kinds
  DEF SslFails, CreateFails, IInv, Exact, WorkersExact, TypeOK, mainVars, apnsVars,
      history, Goto
<1>12. ASSUME NEW w \in Workers, NEW id \in Ids, JoinSsl(w, id)  PROVE badId' \/ WorkersExact'
  BY <1>12, Kinds
  DEF JoinSsl, Reap, Joinable, IInv, Exact, WorkersExact, TypeOK, SslExact, mainVars,
      apnsVars, history, Goto
<1>13. ASSUME NEW w \in Workers, NEW s \in Slots, NewController(w, s) \/ EndThread(w, s)
      PROVE  badId' \/ WorkersExact'
  BY <1>13, Kinds
  DEF NewController, EndThread, IInv, Exact, WorkersExact, TypeOK, mainVars, apnsVars,
      history, Goto
<1>. QED  BY <1>1, <1>2, <1>3, <1>4, <1>5, <1>6, <1>7, <1>8, <1>9, <1>10,
         <1>11, <1>12, <1>13, StepCases

LEMMA SslStep ==
  ASSUME IInv, Next  PROVE badId' \/ SslExact'
<1>1. ASSUME StartStats \/ Wait \/ Stop \/ DeleteStats \/ DeleteApp \/ rcvSigint
      PROVE  badId' \/ SslExact'
  BY <1>1
  DEF StartStats, Wait, Stop, DeleteStats, DeleteApp, rcvSigint, IInv, Exact, SslExact,
      TypeOK, Unset, mainVars, apnsVars, history, Goto
<1>2. ASSUME JoinWorker  PROVE badId' \/ SslExact'
  BY <1>2, ListShrinks, Kinds
  DEF JoinWorker, Reap, Joinable, IInv, Exact, SslExact, TypeOK, Unset, WorkersExact,
      mainVars, apnsVars, history, Goto
<1>3. ASSUME NEW w \in Workers, InitThrows(w) \/ \E id \in Ids : JoinSslUndefined(w, id)
      PROVE  badId' \/ SslExact'
  BY <1>3
  DEF JoinSslUndefined, InitThrows, Undefined, Joinable, IInv, Exact, SslExact, TypeOK,
      Unset, mainVars, apnsVars, history, Goto
<1>4. ASSUME JoinWorkerUndefined  PROVE badId' \/ SslExact'
  BY <1>4, ListShrinks
  DEF JoinWorkerUndefined, Undefined, Joinable, IInv, Exact, SslExact, TypeOK, Unset,
      mainVars, apnsVars, history, Goto
<1>5. ASSUME NEW w \in Workers, CreateWorker(w)  PROVE badId' \/ SslExact'
  BY <1>5, Kinds, ListGrows
  DEF CreateWorker, Create, IInv, Exact, SslExact, TypeOK, Unset, mainVars, apnsVars,
      history, Goto
<1>6. ASSUME NEW w \in Workers, NEW id \in Ids, WorkerFails(w, id)  PROVE badId' \/ SslExact'
  BY <1>6, ListGrows
  DEF WorkerFails, CreateFails, IInv, Exact, SslExact, TypeOK, Unset, mainVars, apnsVars,
      history, Goto
<1>7. ASSUME NEW w \in Workers,
             NewWorker(w) \/ InitStore(w) \/ Started(w) \/ LeaveLoop(w) \/ DestroyStats(w)
      PROVE  badId' \/ SslExact'
  BY <1>7, Kinds
  DEF NewWorker, InitStore, Started, LeaveLoop, DestroyStats, IInv, Exact, SslExact,
      TypeOK, Unset, mainVars, apnsVars, history, Goto
<1>8. ASSUME NEW w \in Workers, NewApns(w) \/ StopApns(w)  PROVE badId' \/ SslExact'
  <2>1. CASE NewApns(w)
    <3>1. \A s \in Slots : thread'[<<w, s>>] = "unborn"
      BY <2>1, Kinds DEF NewApns, Goto, IInv, Places, TypeOK
    <3>. QED  BY <2>1, <3>1, Kinds
              DEF NewApns, IInv, Exact, SslExact, Unset, TypeOK, Goto, mainVars, apnsVars,
                  history
  <2>2. CASE StopApns(w)
    BY <2>2, Kinds
    DEF StopApns, IInv, Exact, SslExact, Unset, TypeOK, Goto, mainVars, apnsVars, history
  <2>. QED  BY <1>8, <2>1, <2>2
<1>9. ASSUME NEW w \in Workers, DeleteWorker(w)  PROVE badId' \/ SslExact'
  BY <1>9, Kinds
  DEF DeleteWorker, IInv, Exact, SslExact, TypeOK, Unset, mainVars, apnsVars, history,
      Goto
<1>10. ASSUME NEW w \in Workers, NEW s \in Slots, CreateSsl(w, s)  PROVE badId' \/ SslExact'
  <2>. DEFINE t == <<w, s>>
  <2>1. /\ t \in Threads /\ t \in {w} \X Slots
        /\ \A v \in Workers : v # t /\ (t \in {v} \X Slots => v = w)
    BY Kinds
  <2>2. /\ thread[t] = "unborn" /\ t \notin joined
        /\ thread' = [thread EXCEPT ![t] = "born"]
        /\ sslThreads' = [sslThreads EXCEPT ![w] = @ \cup {t}]
        /\ sslThread_id' = [sslThread_id EXCEPT ![w] = t]
        /\ UNCHANGED <<joined, badId>>
    BY <1>10, <2>1 DEF CreateSsl, Create, Goto, history, IInv, Tried, TypeOK
  <2>. HIDE DEF t
  <2>3. CASE ~badId
    <3>1. \A v \in Workers : \A id \in sslThreads'[v] :
            id \in ({v} \X Slots) \ joined' /\ thread'[id] # "unborn"
      <4>1. ASSUME NEW v \in Workers, NEW id \in sslThreads'[v], id # t
            PROVE  id \in sslThreads[v] /\ thread'[id] = thread[id]
        BY <2>2, <4>1, Kinds DEF IInv, TypeOK
      <4>2. ASSUME NEW v \in Workers, t \in sslThreads'[v]  PROVE v = w
        BY <2>1, <2>2, <2>3, <4>2 DEF IInv, TypeOK, Exact, SslExact
      <4>3. thread'[t] # "unborn"  BY <2>1, <2>2 DEF IInv, TypeOK
      <4>. QED  BY <2>1, <2>2, <2>3, <4>1, <4>2, <4>3 DEF IInv, Exact, SslExact
    <3>2. ASSUME NEW v \in Workers, thread'[v] = "start", ~Unset(v)'
          PROVE  sslThread_id'[v] \in sslThreads'[v]
      <4>1. CASE v = w  BY <2>1, <2>2, <4>1 DEF IInv, TypeOK
      <4>2. CASE v # w
        <5>1. thread[v] = "start" /\ \A r \in Slots : thread'[<<v, r>>] = thread[<<v, r>>]
          BY <2>1, <2>2, <3>2, <4>2, Kinds DEF IInv, TypeOK
        <5>. QED  BY <2>2, <2>3, <3>2, <4>2, <5>1 DEF IInv, TypeOK, Exact, SslExact, Unset
      <4>. QED  BY <4>1, <4>2
    <3>. QED  BY <3>1, <3>2 DEF SslExact
  <2>. QED  BY <2>2, <2>3
<1>11. ASSUME NEW w \in Workers, NEW s \in Slots, SslFails(w, s)  PROVE badId' \/ SslExact'
  <2>1. PICK id \in Ids :
          /\ sslThread_id' = [sslThread_id EXCEPT ![w] = id]
          /\ sslThreads' = [sslThreads EXCEPT ![w] = @ \cup {id}]
          /\ badId' = (badId \/ Unset(w) \/ id # sslThread_id[w])
    BY <1>11 DEF SslFails
  <2>2. UNCHANGED <<thread, joined>> /\ thread[w] = "start"
    BY <1>11 DEF SslFails, CreateFails
  <2>3. CASE ~badId'
    <3>1. ~badId /\ ~Unset(w) /\ id = sslThread_id[w]  BY <2>1, <2>3
    <3>2. sslThread_id' = sslThread_id /\ id \in sslThreads[w]
      BY <2>1, <2>2, <3>1 DEF IInv, TypeOK, Exact, SslExact
    <3>3. sslThreads' = sslThreads
      BY <2>1, <3>2 DEF IInv, TypeOK
    <3>. QED  BY <2>2, <3>1, <3>2, <3>3 DEF IInv, Exact, SslExact, Unset
  <2>. QED  BY <2>3
<1>12. ASSUME NEW w \in Workers, NEW id \in Ids, JoinSsl(w, id)  PROVE badId' \/ SslExact'
  BY <1>12, Kinds
  DEF JoinSsl, Reap, Joinable, IInv, Exact, SslExact, TypeOK, Unset, mainVars, apnsVars,
      history, Goto
<1>13. ASSUME NEW w \in Workers, NEW s \in Slots, NewController(w, s) \/ EndThread(w, s)
      PROVE  badId' \/ SslExact'
  <2>1. /\ thread[<<w, s>>] # "unborn" /\ thread'[<<w, s>>] # "unborn"
        /\ \A t \in Threads : t # <<w, s>> => thread'[t] = thread[t]
        /\ UNCHANGED <<sslThreads, sslThread_id, joined, badId>>
    BY <1>13, Kinds DEF NewController, EndThread, apnsVars, history, Goto, IInv, TypeOK
  <2>2. \A t \in Threads : thread[t] # "unborn" <=> thread'[t] # "unborn"
    BY <2>1
  <2>3. /\ \A v \in Workers : thread'[v] = thread[v]
        /\ \A v \in Workers : Unset(v)' <=> Unset(v)
    BY <2>1, <2>2, Kinds DEF Unset
  <2>4. \A v \in Workers : \A id \in {v} \X Slots : id \in Threads
    BY Kinds
  <2>. QED  BY <2>1, <2>2, <2>3, <2>4 DEF IInv, Exact, SslExact
<1>. QED  BY <1>1, <1>2, <1>3, <1>4, <1>5, <1>6, <1>7, <1>8, <1>9, <1>10,
         <1>11, <1>12, <1>13, StepCases

LEMMA AbortStep ==
  ASSUME IInv, Next  PROVE AbortNeedsCause'
<1>. USE DEF IInv, AbortNeedsCause, mainVars, history
<1>1. ASSUME JoinWorkerUndefined  PROVE badId
  <2>1. Head(workers) = workers[1] /\ 1 \in DOMAIN workers
    BY <1>1, ListShrinks DEF JoinWorkerUndefined, TypeOK
  <2>. QED  BY <1>1, <2>1, Kinds
            DEF JoinWorkerUndefined, Undefined, Joinable, Exact, WorkersExact
<1>2. ASSUME NEW w \in Workers, NEW id \in Ids, JoinSslUndefined(w, id)  PROVE badId
  <2>1. \A t \in {w} \X Slots : t \in Threads  BY Kinds
  <2>. QED  BY <1>2, <2>1 DEF JoinSslUndefined, Undefined, Joinable, Exact, SslExact
<1>3. ASSUME JoinWorkerUndefined \/ \E w \in Workers : \E id \in Ids : JoinSslUndefined(w, id)
      PROVE  AbortNeedsCause'
  BY <1>1, <1>2, <1>3 DEF JoinWorkerUndefined, JoinSslUndefined, Undefined
<1>4. ASSUME NEW w \in Workers, InitThrows(w)  PROVE AbortNeedsCause'
  BY <1>4 DEF InitThrows
<1>5. ASSUME \/ StartStats \/ Wait \/ Stop \/ DeleteStats \/ DeleteApp \/ rcvSigint \/ JoinWorker
             \/ \E w \in Workers : CreateWorker(w) \/ \E id \in Ids : WorkerFails(w, id)
      PROVE  AbortNeedsCause'
  BY <1>5 DEF StartStats, Wait, Stop, DeleteStats, DeleteApp, rcvSigint, JoinWorker,
              CreateWorker, Create, WorkerFails, CreateFails
<1>6. ASSUME NEW w \in Workers,
             \/ NewWorker(w) \/ InitStore(w) \/ Started(w) \/ LeaveLoop(w)
             \/ DestroyStats(w) \/ NewApns(w) \/ StopApns(w) \/ DeleteWorker(w)
             \/ \E id \in Ids : JoinSsl(w, id)
      PROVE  AbortNeedsCause'
  BY <1>6 DEF NewWorker, InitStore, Started, LeaveLoop, DestroyStats, NewApns, StopApns,
              DeleteWorker, JoinSsl
<1>7. ASSUME NEW w \in Workers, NEW s \in Slots,
             CreateSsl(w, s) \/ SslFails(w, s) \/ NewController(w, s) \/ EndThread(w, s)
      PROVE  AbortNeedsCause'
  BY <1>7 DEF CreateSsl, Create, SslFails, CreateFails, NewController, EndThread
<1>. QED  BY <1>3, <1>4, <1>5, <1>6, <1>7, StepCases

-----------------------------------------------------------------------------
(* The theorems                                                            *)

LEMMA InitIInv == Init => IInv
<1>. SUFFICES ASSUME Init  PROVE IInv
  OBVIOUS
<1>1. \A t \in Threads : thread[t] = "unborn"  BY DEF Init
<1>2. TypeOK
  <2>1. workers \in Seq(Ids)  BY DEF Init
  <2>2. 0 \in 0 .. MaxFailures /\ Stray \in Ids  BY FailureAssumption DEF Ids
  <2>. QED  BY <2>1, <2>2 DEF Init, TypeOK
<1>3. Tried /\ SslPlaces /\ Places /\ Listed /\ StatsUp /\ ApnsUp /\ AbortNeedsCause
  BY <1>1, Kinds DEF Init, Tried, SslPlaces, Places, Listed, StatsUp, ApnsUp, Running, AbortNeedsCause
<1>4. WorkersExact /\ SslExact
  BY <1>1, Kinds DEF Init, WorkersExact, SslExact
<1>. QED  BY <1>2, <1>3, <1>4 DEF IInv, Exact

LEMMA NextIInv == IInv /\ [Next]_vars => IInv'
<1>1. ASSUME IInv, Next  PROVE IInv'
  <2>1. Exact'  BY <1>1, WorkersStep, SslStep DEF Exact
  <2>. QED  BY <1>1, <2>1, TypeStep, TriedStep, SslPlacesStep, PlacesStep, ListedStep, StatsStep,
               ApnsStep, AbortStep DEF IInv
<1>2. ASSUME IInv, UNCHANGED vars  PROVE IInv'
  BY <1>2 DEF vars, IInv, TypeOK, Tried, SslPlaces, Places, Listed, StatsUp, ApnsUp, Running, Exact,
              WorkersExact, SslExact, Unset, AbortNeedsCause
<1>. QED  BY <1>1, <1>2

LEMMA Inductive == Spec => []IInv
  BY InitIInv, NextIInv, PTL DEF Spec

\* Types; and what was joined had returned.
THEOREM TypeCorrect == Spec => []TypeOK
<1>1. IInv => TypeOK  BY DEF IInv
<1>. QED  BY <1>1, Inductive, PTL

\* StompStats, the APNS objects and the global app are deleted after their
\* last user, for any number of workers and threads, and whichever calls of
\* pthread_create fail (App.cpp:83, Worker.cpp:64-67, main.cpp:91).
THEOREM DeletedLast == Spec => []OutlivesItsUsers
<1>1. IInv => OutlivesItsUsers
  <2>. SUFFICES ASSUME IInv  PROVE OutlivesItsUsers
    OBVIOUS
  <2>1. ASSUME main = "exited", NEW w \in Workers
        PROVE  ~Running(w) /\ \A s \in Slots : ~Running(<<w, s>>)
    <3>1. thread[w] \in {"unborn", "exited"}  BY <2>1 DEF IInv, StatsUp
    <3>2. CASE thread[w] = "unborn"
      BY <3>2, <2>1 DEF IInv, Places, Running
    <3>3. CASE thread[w] = "exited"
      BY <3>3, <2>1 DEF IInv, Places, ApnsUp, Running
    <3>. QED  BY <3>1, <3>2, <3>3
  <2>2. main = "exited" => \A t \in Threads : ~Running(t)
    BY <2>1 DEF Threads, Ssl
  <2>. QED  BY <2>2 DEF IInv, StatsUp, ApnsUp, OutlivesItsUsers
<1>. QED  BY <1>1, Inductive, PTL

\* The destructor of Worker never calls stop() through a null pointer
\* (Worker.cpp:66).
THEOREM StopNeverNull == Spec => []StopsWhatItStarted
<1>1. IInv => StopsWhatItStarted  BY DEF IInv, Places, StopsWhatItStarted
<1>. QED  BY <1>1, Inductive, PTL

\* However many calls of pthread_create fail in APNS::start(), no join is
\* undefined as long as each leaves the variable with the id of the thread
\* before; an abort has another cause: an exception, or an id left behind that
\* is another one (APNS.cpp:160, 181, 206).
THEOREM AbortsExplained == Spec => []AbortNeedsCause
<1>1. IInv => AbortNeedsCause  BY DEF IInv
<1>. QED  BY <1>1, Inductive, PTL

\* After SIGINT main() or a thread can always go on, for any number of workers
\* and threads: no circle of joins, unless a failed pthread_create left another
\* id than that of the thread before (App.cpp:79, APNS.cpp:206).
THEOREM NoCircleOfJoins == Spec => []NobodyWaits
<1>1. IInv => NobodyWaits
  <2>. SUFFICES ASSUME IInv, done, Alive, ~badId, ~MainAble
                PROVE  \E w \in Workers : WorkerAble(w) \/ \E s \in Slots : SslAble(w, s)
    BY DEF NobodyWaits
  <2>. DEFINE w == Head(workers)
  <2>1. /\ main = "join" /\ workers # <<>> /\ Joinable(w) /\ thread[w] # "exited"
    BY DEF MainAble
  <2>2. w \in Workers /\ Running(w)
    <3>1. w = workers[1] /\ 1 \in DOMAIN workers
      BY <2>1, ListShrinks DEF IInv, TypeOK
    <3>. QED  BY <2>1, <3>1 DEF IInv, Exact, WorkersExact, Running
  <2>. HIDE DEF w
  <2>3. CASE WorkerAble(w)  BY <2>2, <2>3
  <2>4. CASE ~WorkerAble(w)
    <3>1. /\ thread[w] = "join" /\ sslThreads[w] # {}
          /\ \A id \in sslThreads[w] : Joinable(id) /\ thread[id] # "exited"
      BY <2>2, <2>4 DEF WorkerAble
    <3>2. PICK id \in sslThreads[w] : TRUE  BY <3>1
    <3>3. PICK s \in Slots : id = <<w, s>>
      BY <2>2, <3>2 DEF IInv, Exact, SslExact
    <3>4. thread[<<w, s>>] \in {"born", "loop"}
      BY <2>2, <3>1, <3>2, <3>3 DEF Joinable, IInv, SslPlaces
    <3>5. apns[w] = "done"  BY <2>2, <3>1 DEF IInv, Places
    <3>6. SslAble(w, s)  BY <3>4, <3>5 DEF SslAble
    <3>. QED  BY <2>2, <3>6
  <2>. QED  BY <2>3, <2>4
<1>. QED  BY <1>1, Inductive, PTL

-----------------------------------------------------------------------------
(* The process ends after a finite number of steps                         *)

\* How far a thread came, and how far main() came.
Stage(place) ==
  CASE place = "unborn"  -> 0 [] place = "born"    -> 1 [] place = "init" -> 2
    [] place = "store"   -> 3 [] place = "start"   -> 4 [] place = "loop" -> 5
    [] place = "destroy" -> 6 [] place = "stop"    -> 7 [] place = "join" -> 8
    [] place = "exited"  -> 9

MainStage(place) ==
  CASE place = "start" -> 0 [] place = "create" -> 1 [] place = "wait"   -> 2
    [] place = "join"  -> 3 [] place = "delete" -> 4 [] place = "exited" -> 5
    [] place = "aborted" -> 6

\* What is left to do for the process: threads to create, stages to come to,
\* ids to reap in every worker and in main(), and a signal to receive.
ToCreate == Threads \ tried
ToCome == {e \in Threads \X (1 .. 9) : e[2] > Stage(thread[e[1]])}
ToPass == {i \in 1 .. 6 : i > MainStage(main)}
ToReap ==
  {e \in Workers \X Ids : thread[e[1]] \in {"join", "exited"} => e[2] \in sslThreads[e[1]]}
ToJoin == 1 .. Len(workers) + Cardinality(Workers \ tried)
ToReceive == IF done THEN {} ELSE {"SIGINT"}

Left == <<ToCreate, ToCome, ToPass, ToReap, ToJoin, ToReceive>>

\* A step takes nothing back of what is left, and does some of it.
Progress == Left' # Left /\ \A i \in DOMAIN Left : Left'[i] \subseteq Left[i]

LEMMA ProgressParts ==
  ASSUME /\ ToCreate' \subseteq ToCreate /\ ToCome' \subseteq ToCome
         /\ ToPass' \subseteq ToPass /\ ToReap' \subseteq ToReap
         /\ ToJoin' \subseteq ToJoin /\ ToReceive' \subseteq ToReceive,
         \/ ToCreate' # ToCreate \/ ToCome' # ToCome \/ ToPass' # ToPass
         \/ ToReap' # ToReap \/ ToJoin' # ToJoin \/ ToReceive' # ToReceive
  PROVE  Progress
<1>1. /\ DOMAIN Left = 1 .. 6 /\ Left[1] = ToCreate /\ Left[2] = ToCome
      /\ Left[3] = ToPass /\ Left[4] = ToReap /\ Left[5] = ToJoin /\ Left[6] = ToReceive
  BY DEF Left
<1>2. /\ Left'[1] = ToCreate' /\ Left'[2] = ToCome' /\ Left'[3] = ToPass'
      /\ Left'[4] = ToReap' /\ Left'[5] = ToJoin' /\ Left'[6] = ToReceive'
  BY DEF Left
<1>3. Left' # Left  BY <1>1, <1>2
<1>4. ASSUME NEW i \in 1 .. 6  PROVE Left'[i] \subseteq Left[i]
  <2>1. i = 1 \/ i = 2 \/ i = 3 \/ i = 4 \/ i = 5 \/ i = 6  OBVIOUS
  <2>. QED  BY <1>1, <1>2, <2>1
<1>. QED  BY <1>1, <1>3, <1>4 DEF Progress

LEMMA Stages ==
  ASSUME TypeOK
  PROVE  /\ \A t \in Threads : Stage(thread[t]) \in 0 .. 9
         /\ MainStage(main) \in 0 .. 6
  BY DEF TypeOK, Stage, MainStage

\* A thread that moves on leaves a stage behind.
LEMMA Comes ==
  ASSUME TypeOK, TypeOK', NEW t \in Threads, NEW p, thread' = [thread EXCEPT ![t] = p],
         Stage(thread[t]) < Stage(p)
  PROVE  ToCome' \subseteq ToCome /\ ToCome' # ToCome
<1>1. /\ Stage(thread[t]) \in 0 .. 9 /\ thread'[t] = p /\ Stage(p) \in 0 .. 9
      /\ \A u \in Threads : u # t => thread'[u] = thread[u]
  <2>1. thread'[t] = p /\ \A u \in Threads : u # t => thread'[u] = thread[u]
    BY DEF TypeOK
  <2>2. Stage(thread'[t]) \in 0 .. 9  BY DEF TypeOK, Stage
  <2>. QED  BY <2>1, <2>2, Stages
<1>2. ASSUME NEW e \in ToCome'  PROVE e \in ToCome
  <2>1. e \in Threads \X (1 .. 9) /\ e[2] > Stage(thread'[e[1]])  BY <1>2 DEF ToCome
  <2>2. e[1] \in Threads /\ e[2] \in 1 .. 9  BY <2>1
  <2>3. e[2] > Stage(thread[e[1]])
    <3>1. CASE e[1] = t  BY <1>1, <2>1, <2>2, <3>1
    <3>2. CASE e[1] # t  BY <1>1, <2>1, <2>2, <3>2
    <3>. QED  BY <3>1, <3>2
  <2>. QED  BY <2>1, <2>3 DEF ToCome
<1>3. <<t, Stage(p)>> \in ToCome /\ <<t, Stage(p)>> \notin ToCome'
  <2>1. Stage(p) \in 1 .. 9 /\ <<t, Stage(p)>> \in Threads \X (1 .. 9)  BY <1>1
  <2>2. <<t, Stage(p)>>[1] = t /\ <<t, Stage(p)>>[2] = Stage(p)  OBVIOUS
  <2>3. ~(Stage(p) > Stage(p))  BY <1>1
  <2>. QED  BY <1>1, <2>1, <2>2, <2>3 DEF ToCome
<1>. QED  BY <1>2, <1>3

LEMMA Passes ==
  ASSUME TypeOK, TypeOK', MainStage(main) < MainStage(main')
  PROVE  ToPass' \subseteq ToPass /\ ToPass' # ToPass
<1>1. /\ MainStage(main) \in 0 .. 6 /\ MainStage(main') \in 1 .. 6
  <2>1. MainStage(main') \in 0 .. 6  BY DEF TypeOK, MainStage
  <2>. QED  BY <2>1, Stages
<1>2. MainStage(main') \in ToPass /\ MainStage(main') \notin ToPass'
  BY <1>1 DEF ToPass
<1>3. ToPass' \subseteq ToPass  BY <1>1 DEF ToPass
<1>. QED  BY <1>2, <1>3

\* Creating a worker puts one id on the list and takes one off those to come.
LEMMA JoinStays ==
  ASSUME TypeOK, NEW w \in Workers, w \notin tried, tried' = tried \cup {w},
         NEW id \in Ids, workers' = Append(workers, id)
  PROVE  ToJoin' = ToJoin
<1>1. IsFiniteSet(Workers \ tried) /\ w \in Workers \ tried
  BY ThreadAssumption, FS_Difference
<1>2. Workers \ tried' = (Workers \ tried) \ {w}  OBVIOUS
<1>3. /\ Cardinality(Workers \ tried) \in Nat
      /\ Cardinality((Workers \ tried) \ {w}) = Cardinality(Workers \ tried) - 1
  BY <1>1, FS_RemoveElement, FS_CardinalityType
<1>4. Len(workers') = Len(workers) + 1 /\ Len(workers) \in Nat
  BY DEF TypeOK
<1>5. Cardinality(Workers \ tried') = Cardinality(Workers \ tried) - 1
  BY <1>2, <1>3
<1>6. Len(workers') + Cardinality(Workers \ tried') = Len(workers) + Cardinality(Workers \ tried)
  BY <1>3, <1>4, <1>5
<1>. QED  BY <1>6 DEF ToJoin

LEMMA Reaps ==
  ASSUME \A w \in Workers :
           thread[w] \in {"join", "exited"} =>
             thread'[w] \in {"join", "exited"} /\ sslThreads'[w] \subseteq sslThreads[w]
  PROVE  ToReap' \subseteq ToReap
  BY DEF ToReap

LEMMA StepsAdvance == IInv /\ Next => Progress
<1>. SUFFICES ASSUME IInv, Next  PROVE Progress
  OBVIOUS
<1>0. TypeOK /\ TypeOK'  BY TypeStep DEF IInv
<1>1. ASSUME StartStats \/ Wait \/ Stop \/ DeleteStats \/ DeleteApp  PROVE Progress
  <2>1. /\ MainStage(main) < MainStage(main')
        /\ UNCHANGED <<workers, thread, sslThreads, tried, done>>
    BY <1>1 DEF StartStats, Wait, Stop, DeleteStats, DeleteApp, MainStage, apnsVars
  <2>2. UNCHANGED <<ToCreate, ToCome, ToReap, ToJoin, ToReceive>>
    BY <2>1 DEF ToCreate, ToCome, ToReap, ToJoin, ToReceive
  <2>. QED  BY <1>0, <2>1, <2>2, Passes, ProgressParts
<1>2. ASSUME rcvSigint  PROVE Progress
  <2>1. UNCHANGED <<main, workers, thread, sslThreads, tried>> /\ ~done /\ done'
    BY <1>2 DEF rcvSigint, mainVars, apnsVars
  <2>2. UNCHANGED <<ToCreate, ToCome, ToPass, ToReap, ToJoin>>
    BY <2>1 DEF ToCreate, ToCome, ToPass, ToReap, ToJoin
  <2>3. ToReceive = {"SIGINT"} /\ ToReceive' = {}
    BY <2>1 DEF ToReceive
  <2>. QED  BY <2>2, <2>3, ProgressParts
<1>3. ASSUME JoinWorker  PROVE Progress
  <2>1. /\ UNCHANGED <<main, thread, sslThreads, tried, done>>
        /\ Len(workers') = Len(workers) - 1 /\ Len(workers) \in Nat
    BY <1>0, <1>3 DEF JoinWorker, apnsVars, TypeOK
  <2>2. UNCHANGED <<ToCreate, ToCome, ToPass, ToReap, ToReceive>>
    BY <2>1 DEF ToCreate, ToCome, ToPass, ToReap, ToReceive
  <2>3. ToJoin' \subseteq ToJoin /\ ToJoin' # ToJoin
    <3>1. Cardinality(Workers \ tried) \in Nat
      BY ThreadAssumption, FS_Difference, FS_CardinalityType
    <3>2. PICK n \in Nat : n = Cardinality(Workers \ tried)  BY <3>1
    <3>3. Len(workers) # 0
      BY <1>0, <1>3 DEF JoinWorker, TypeOK
    <3>4. ToJoin = 1 .. Len(workers) + n /\ ToJoin' = 1 .. Len(workers) - 1 + n
      BY <2>1, <3>2 DEF ToJoin
    <3>5. Len(workers) + n \in ToJoin /\ Len(workers) + n \notin ToJoin'
      BY <2>1, <3>3, <3>4
    <3>6. ToJoin' \subseteq ToJoin  BY <2>1, <3>4
    <3>. QED  BY <3>5, <3>6
  <2>. QED  BY <2>2, <2>3, ProgressParts
<1>4. ASSUME JoinWorkerUndefined \/ (Alive /\ \E w \in Workers :
               InitThrows(w) \/ \E id \in Ids : JoinSslUndefined(w, id))
      PROVE  Progress
  <2>1. /\ main' = "aborted" /\ main \notin {"exited", "aborted"}
        /\ UNCHANGED <<workers, thread, sslThreads, tried, done>>
    BY <1>4 DEF JoinWorkerUndefined, InitThrows, JoinSslUndefined, Undefined, Alive, apnsVars
  <2>2. MainStage(main) < MainStage(main')
    BY <1>0, <2>1 DEF MainStage, TypeOK
  <2>3. UNCHANGED <<ToCreate, ToCome, ToReap, ToJoin, ToReceive>>
    BY <2>1 DEF ToCreate, ToCome, ToReap, ToJoin, ToReceive
  <2>. QED  BY <1>0, <2>2, <2>3, Passes, ProgressParts
<1>5. ASSUME NEW w \in Workers, CreateWorker(w) \/ \E id \in Ids : WorkerFails(w, id)
      PROVE  Progress
  <2>1. PICK id \in Ids :
          /\ w \notin tried /\ tried' = tried \cup {w} /\ workers' = Append(workers, id)
          /\ UNCHANGED <<main, done, sslThreads>>
    BY <1>5, Kinds DEF CreateWorker, Create, WorkerFails, CreateFails, apnsVars
  <2>2. /\ ToJoin' = ToJoin
        /\ UNCHANGED <<ToPass, ToReceive>>
    BY <1>0, <2>1, JoinStays DEF ToPass, ToReceive
  <2>3. ToCreate' \subseteq ToCreate /\ ToCreate' # ToCreate
    BY <2>1, Kinds DEF ToCreate
  <2>4. ToCome' \subseteq ToCome /\ ToReap' \subseteq ToReap
    <3>1. CASE CreateWorker(w)
      <4>1. thread' = [thread EXCEPT ![w] = "born"] /\ thread[w] = "unborn"
        BY <3>1, <2>1, Kinds DEF CreateWorker, Create, Goto, IInv, Tried
      <4>2. Stage(thread[w]) < Stage("born")  BY <4>1 DEF Stage
      <4>3. \A v \in Workers : thread[v] \in {"join", "exited"} => thread'[v] = thread[v]
        BY <1>0, <4>1, Kinds DEF TypeOK
      <4>. QED  BY <1>0, <2>1, <4>1, <4>2, <4>3, Kinds, Comes, Reaps
    <3>2. ASSUME NEW i \in Ids, WorkerFails(w, i)  PROVE UNCHANGED <<ToCome, ToReap>>
      BY <3>2 DEF WorkerFails, CreateFails, apnsVars, ToCome, ToReap
    <3>. QED  BY <1>5, <3>1, <3>2
  <2>. QED  BY <2>2, <2>3, <2>4, ProgressParts
<1>6. ASSUME NEW w \in Workers,
             \/ NewWorker(w) \/ InitStore(w) \/ Started(w) \/ LeaveLoop(w)
             \/ DestroyStats(w) \/ NewApns(w) \/ StopApns(w) \/ DeleteWorker(w)
      PROVE  Progress
  <2>1. PICK p :
          /\ thread' = [thread EXCEPT ![w] = p] /\ Stage(thread[w]) < Stage(p)
          /\ thread[w] = "join" => p = "exited"
          /\ thread[w] # "exited"
          /\ UNCHANGED <<main, workers, sslThreads, tried, done>>
    BY <1>6 DEF NewWorker, InitStore, Started, LeaveLoop, DestroyStats, NewApns, StopApns,
                DeleteWorker, Goto, Stage, mainVars, apnsVars
  <2>2. UNCHANGED <<ToCreate, ToPass, ToJoin, ToReceive>>
    BY <2>1 DEF ToCreate, ToPass, ToJoin, ToReceive
  <2>3. \A v \in Workers :
          thread[v] \in {"join", "exited"} => thread'[v] \in {"join", "exited"}
    BY <1>0, <2>1, Kinds DEF TypeOK
  <2>4. ToReap' \subseteq ToReap  BY <2>1, <2>3, Reaps
  <2>. QED  BY <1>0, <2>1, <2>2, <2>4, Kinds, Comes, ProgressParts
<1>7. ASSUME NEW w \in Workers, NEW s \in Slots, CreateSsl(w, s) \/ SslFails(w, s)
      PROVE  Progress
  <2>1. /\ <<w, s>> \notin tried /\ tried' = tried \cup {<<w, s>>} /\ thread[w] = "start"
        /\ UNCHANGED <<main, workers, done>>
        /\ \A v \in Workers : v # w => sslThreads'[v] = sslThreads[v]
    BY <1>0, <1>7 DEF CreateSsl, Create, SslFails, CreateFails, mainVars, TypeOK
  <2>2. ToCreate' \subseteq ToCreate /\ ToCreate' # ToCreate
    BY <2>1, Kinds DEF ToCreate
  <2>3. UNCHANGED <<ToPass, ToJoin, ToReceive>>
    <3>1. Workers \ tried' = Workers \ tried  BY <2>1, Kinds
    <3>. QED  BY <2>1, <3>1 DEF ToPass, ToJoin, ToReceive
  <2>4. ToCome' \subseteq ToCome /\ \A v \in Workers : thread'[v] = thread[v]
    <3>1. CASE CreateSsl(w, s)
      <4>1. thread' = [thread EXCEPT ![<<w, s>>] = "born"] /\ thread[<<w, s>>] = "unborn"
        BY <3>1, <2>1, Kinds DEF CreateSsl, Create, Goto, IInv, Tried
      <4>2. Stage(thread[<<w, s>>]) < Stage("born")  BY <4>1 DEF Stage
      <4>3. \A v \in Workers : thread'[v] = thread[v]
        BY <1>0, <4>1, Kinds DEF TypeOK
      <4>. QED  BY <1>0, <4>1, <4>2, <4>3, Kinds, Comes
    <3>2. CASE SslFails(w, s)
      BY <3>2 DEF SslFails, CreateFails, ToCome
    <3>. QED  BY <1>7, <3>1, <3>2
  <2>5. ToReap' \subseteq ToReap  BY <2>1, <2>4, Reaps
  <2>. QED  BY <2>2, <2>3, <2>4, <2>5, ProgressParts
<1>8. ASSUME NEW w \in Workers, NEW id \in Ids, JoinSsl(w, id)  PROVE Progress
  <2>1. /\ thread[w] = "join" /\ id \in sslThreads[w]
        /\ sslThreads' = [sslThreads EXCEPT ![w] = @ \ {id}]
        /\ UNCHANGED <<main, workers, thread, tried, done>>
    BY <1>8 DEF JoinSsl, mainVars
  <2>2. UNCHANGED <<ToCreate, ToCome, ToPass, ToJoin, ToReceive>>
    BY <2>1 DEF ToCreate, ToCome, ToPass, ToJoin, ToReceive
  <2>3. ToReap' \subseteq ToReap  BY <1>0, <2>1, Reaps DEF TypeOK
  <2>4. <<w, id>> \in ToReap /\ <<w, id>> \notin ToReap'
    BY <1>0, <2>1 DEF ToReap, TypeOK
  <2>. QED  BY <2>2, <2>3, <2>4, ProgressParts
<1>9. ASSUME NEW w \in Workers, NEW s \in Slots, NewController(w, s) \/ EndThread(w, s)
      PROVE  Progress
  <2>1. PICK p :
          /\ thread' = [thread EXCEPT ![<<w, s>>] = p] /\ Stage(thread[<<w, s>>]) < Stage(p)
          /\ UNCHANGED <<main, workers, sslThreads, tried, done>>
    BY <1>9 DEF NewController, EndThread, Goto, Stage, mainVars, apnsVars
  <2>2. UNCHANGED <<ToCreate, ToPass, ToJoin, ToReceive>>
    BY <2>1 DEF ToCreate, ToPass, ToJoin, ToReceive
  <2>3. \A v \in Workers : thread'[v] = thread[v]
    BY <1>0, <2>1, Kinds DEF TypeOK
  <2>4. ToReap' \subseteq ToReap  BY <2>1, <2>3, Reaps
  <2>. QED  BY <1>0, <2>1, <2>2, <2>4, Kinds, Comes, ProgressParts
<1>. QED  BY <1>1, <1>2, <1>3, <1>4, <1>5, <1>6, <1>7, <1>8, <1>9, StepCases

LEMMA LeftFinite == TypeOK => \A i \in DOMAIN Left : IsFiniteSet(Left[i])
<1>. SUFFICES ASSUME TypeOK  PROVE \A i \in DOMAIN Left : IsFiniteSet(Left[i])
  OBVIOUS
<1>0. IsFiniteSet(1 .. 6) /\ IsFiniteSet(1 .. 9)
  <2>1. 1 \in Int /\ 6 \in Int /\ 9 \in Int  OBVIOUS
  <2>. QED  BY <2>1, FS_Interval
<1>1. IsFiniteSet(Threads) /\ IsFiniteSet(Ids)
  <2>1. IsFiniteSet(Ssl)  BY ThreadAssumption, FS_Product DEF Ssl
  <2>2. IsFiniteSet(Threads)  BY <2>1, ThreadAssumption, FS_Union DEF Threads
  <2>3. IsFiniteSet(Threads \cup {Stray})  BY <2>2, FS_AddElement
  <2>. QED  BY <2>2, <2>3 DEF Ids
<1>2. IsFiniteSet(ToCreate)  BY <1>1, FS_Difference DEF ToCreate
<1>3. IsFiniteSet(ToCome)
  <2>1. IsFiniteSet(Threads \X (1 .. 9))  BY <1>0, <1>1, FS_Product
  <2>2. ToCome \in SUBSET (Threads \X (1 .. 9))  BY DEF ToCome
  <2>. QED  BY <2>1, <2>2, FS_Subset
<1>4. IsFiniteSet(ToPass)
  <2>1. ToPass \in SUBSET (1 .. 6)  BY DEF ToPass
  <2>. QED  BY <1>0, <2>1, FS_Subset
<1>5. IsFiniteSet(ToReap)
  <2>1. IsFiniteSet(Workers \X Ids)  BY <1>1, ThreadAssumption, FS_Product
  <2>2. ToReap \in SUBSET (Workers \X Ids)  BY DEF ToReap
  <2>. QED  BY <2>1, <2>2, FS_Subset
<1>6. IsFiniteSet(ToJoin)
  <2>1. Cardinality(Workers \ tried) \in Nat
    BY ThreadAssumption, FS_Difference, FS_CardinalityType
  <2>2. Len(workers) \in Nat  BY DEF TypeOK
  <2>3. Len(workers) + Cardinality(Workers \ tried) \in Int  BY <2>1, <2>2
  <2>. QED  BY <2>3, FS_Interval DEF ToJoin
<1>7. IsFiniteSet(ToReceive)
  <2>1. ToReceive = {} \/ ToReceive = {"SIGINT"}  BY DEF ToReceive
  <2>. QED  BY <2>1, FS_EmptySet, FS_Singleton
<1>8. /\ DOMAIN Left = 1 .. 6 /\ Left[1] = ToCreate /\ Left[2] = ToCome
      /\ Left[3] = ToPass /\ Left[4] = ToReap /\ Left[5] = ToJoin /\ Left[6] = ToReceive
  BY DEF Left
<1>9. ASSUME NEW i \in 1 .. 6  PROVE IsFiniteSet(Left[i])
  <2>1. i = 1 \/ i = 2 \/ i = 3 \/ i = 4 \/ i = 5 \/ i = 6  OBVIOUS
  <2>. QED  BY <1>2, <1>3, <1>4, <1>5, <1>6, <1>7, <1>8, <2>1
<1>. QED  BY <1>8, <1>9

\* Start and end take a finite number of steps: six finite sets say what is
\* left to do, no step gives anything back to one of them, and each takes
\* something.  With NoCircleOfJoins: after SIGINT the process ends, if those
\* who can go on do (main.cpp:83, App.cpp:79, Worker.cpp:58).
THEOREM StepsRunOut ==
  Spec => [](\A i \in DOMAIN Left : IsFiniteSet(Left[i])) /\ [][Progress]_vars
<1>1. IInv => \A i \in DOMAIN Left : IsFiniteSet(Left[i])  BY LeftFinite DEF IInv
<1>2. IInv /\ [Next]_vars => [Progress]_vars  BY StepsAdvance
<1>. QED  BY <1>1, <1>2, Inductive, PTL DEF Spec
=============================================================================
