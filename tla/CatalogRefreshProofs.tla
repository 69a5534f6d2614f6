------------------------ MODULE CatalogRefreshProofs ------------------------
(***************************************************************************)
(* Proofs about CatalogRefresh, for any number of refreshes, edits and     *)
(* configurations: tickets are handed out once, the latest ingest wins,    *)
(* and a refresh that succeeded has its catalog in the cache.              *)
(*                                                                         *)
(* That a ticket is the latest says only something about the ingest that   *)
(* holds it because an ingest carries the catalog of its own refresh; and  *)
(* that a success means a cached catalog of the version the run read needs *)
(* the order of the requests: the version of the fetch lies between that   *)
(* of the first read and that of the second.                               *)
(***************************************************************************)
EXTENDS CatalogRefresh, TLAPS

\* An ingest carries the catalog its refresh fetched, and was answered ok only if
\* that catalog has been in the cache.
IngestsOwn ==
  \A r \in Refreshes :
    /\ ingests[r].at = "none" => ingests[r].catalog = NoCatalog
    /\ ingests[r].at # "none" => ingests[r].catalog \in Catalog
                                 /\ ingests[r].catalog.refresh = r
    /\ ingests[r].reply = "ok" => ingests[r].catalog \in held

\* What the run knows after each of its requests.
RunOrder ==
  /\ pc # "idle" => refresh \in Refreshes /\ outcome = "none"
  /\ pc = "fetch" => read <= version
  /\ pc \in {"recheck", "post"} =>
       /\ fetched \in Catalog /\ fetched.refresh = refresh
       /\ read <= fetched.version /\ fetched.version <= version
  /\ pc = "post" =>
       /\ fetched.version = read
       /\ ingests[refresh].at # "none" /\ ingests[refresh].catalog = fetched

IInv == TypeOK /\ IngestsOwn /\ RunOrder /\ SuccessIsCached

USE DEF Refreshes, Version

LEMMA InitIInv == Init => IInv
<1> SUFFICES ASSUME Init PROVE IInv
  OBVIOUS
<1>1. NoIngest \in Ingest
  BY DEF NoIngest, Ingest
<1>2. TypeOK
  BY <1>1, RefreshBounds DEF Init, TypeOK, NoIngest, NoCatalog, Outcome
<1>3. IngestsOwn /\ RunOrder /\ SuccessIsCached
  BY DEF Init, IngestsOwn, RunOrder, SuccessIsCached, NoIngest
<1> QED
  BY <1>2, <1>3 DEF IInv

\* A configuration or a shutdown takes a ticket that no ingest gets.
LEMMA ReconfiguredIInv ==
  ASSUME IInv, Configure \/ Shutdown PROVE IInv'
<1>0. TypeOK /\ \A r \in Refreshes : ingests[r].ticket \in Nat
  BY DEF IInv, TypeOK, Ingest
<1>1. /\ latestIngestTicket' = latestIngestTicket + 1 /\ latestIngestTicket' \in Nat
      /\ configured' \in BOOLEAN /\ reconfigureSeq' \in 1 .. MaxGeneration
      /\ UNCHANGED <<version, committedIngestTicket, last, ingests, writerVars, held>>
  <2>1. latestIngestTicket \in Nat /\ reconfigureSeq \in 1 .. MaxGeneration
        /\ configured \in BOOLEAN /\ MaxGeneration \in Nat
    BY <1>0, RefreshBounds DEF TypeOK
  <2>2. CASE Configure
    BY <2>1, <2>2 DEF Configure
  <2>3. CASE Shutdown
    <3>1. configured' = FALSE /\ latestIngestTicket' = latestIngestTicket + 1
      BY <2>3 DEF Shutdown
    <3>2. UNCHANGED <<version, reconfigureSeq, committedIngestTicket, last, ingests, writerVars,
                      held>>
      BY <2>3 DEF Shutdown
    <3>3. configured' \in BOOLEAN
      BY <3>1, Zenon
    <3>4. reconfigureSeq' \in 1 .. MaxGeneration /\ latestIngestTicket' \in Nat
      BY <2>1, <3>1, <3>2
    <3> QED
      BY <3>1, <3>2, <3>3, <3>4, Zenon
  <2> QED
    BY <2>2, <2>3
<1>2. committedIngestTicket' \in 0 .. latestIngestTicket'
  BY <1>0, <1>1 DEF TypeOK
<1>3. \A r \in Refreshes : ingests'[r].ticket <= latestIngestTicket'
  BY <1>0, <1>1 DEF TypeOK
<1>4. TypeOK'
  BY <1>0, <1>1, <1>2, <1>3 DEF TypeOK, writerVars
<1> QED
  BY <1>4 DEF IInv, IngestsOwn, RunOrder, SuccessIsCached, Configure, Shutdown, writerVars

LEMMA AuthorizeIInv ==
  ASSUME IInv, NEW r \in Refreshes, Authorize(r) PROVE IInv'
<1>0. TypeOK /\ IngestsOwn /\ RunOrder /\ SuccessIsCached
  BY DEF IInv
<1> DEFINE i == ingests[r]
<1>01. i \in Ingest /\ i.at = "sent" /\ latestIngestTicket + 1 \in Nat /\ reconfigureSeq \in Nat
  BY <1>0, RefreshBounds DEF Authorize, TypeOK
<1>02. /\ [i EXCEPT !.at = "authorized", !.ticket = NextTicket, !.generation = reconfigureSeq]
             \in Ingest
       /\ [i EXCEPT !.at = "returned", !.reply = "unauthorized"] \in Ingest
  BY <1>01 DEF Ingest, NextTicket
<1>03. \/ ingests' = [ingests EXCEPT ![r] = [i EXCEPT !.at = "authorized", !.ticket = NextTicket,
                                                    !.generation = reconfigureSeq]]
       \/ ingests' = [ingests EXCEPT ![r] = [i EXCEPT !.at = "returned",
                                                    !.reply = "unauthorized"]]
  BY DEF Authorize
<1>1. /\ ingests' \in [Refreshes -> Ingest]
      /\ \A s \in Refreshes : s # r => ingests'[s] = ingests[s]
      /\ ingests'[r].at # "none" /\ ingests'[r].catalog = ingests[r].catalog
      /\ ingests'[r].reply = "ok" => ingests[r].reply = "ok"
  <2> DEFINE a == [i EXCEPT !.at = "authorized", !.ticket = NextTicket,
                            !.generation = reconfigureSeq]
             b == [i EXCEPT !.at = "returned", !.reply = "unauthorized"]
  <2>1. /\ a.at = "authorized" /\ a.catalog = i.catalog /\ a.reply = i.reply
        /\ b.at = "returned" /\ b.catalog = i.catalog /\ b.reply = "unauthorized"
    BY <1>01 DEF Ingest
  <2>2. ingests \in [Refreshes -> Ingest]
    BY <1>0 DEF TypeOK
  <2>3. PICK j \in {a, b} : ingests' = [ingests EXCEPT ![r] = j]
    BY <1>03
  <2>4. j \in Ingest /\ j.at # "none" /\ j.catalog = i.catalog
        /\ (j.reply = "ok" => i.reply = "ok")
    BY <1>02, <2>1, <2>3
  <2> HIDE DEF a, b
  <2> QED
    BY <2>2, <2>3, <2>4
<1>2. latestIngestTicket' \in Nat /\ latestIngestTicket' >= latestIngestTicket
  BY <1>0 DEF Authorize, TypeOK, NextTicket
<1>3. \A s \in Refreshes : ingests[s].ticket \in Nat
  BY <1>0 DEF TypeOK, Ingest
<1>4. \/ ingests'[r].ticket = ingests[r].ticket
      \/ /\ ingests'[r].ticket = latestIngestTicket + 1
         /\ latestIngestTicket' = latestIngestTicket + 1
  <2>1. i.ticket \in Nat /\ ingests \in [Refreshes -> Ingest]
    BY <1>0, <1>01 DEF Ingest, TypeOK
  <2>2. CASE configured
    BY <1>01, <2>1, <2>2 DEF Authorize, NextTicket, Ingest
  <2>3. CASE ~ configured
    <3> DEFINE b == [i EXCEPT !.at = "returned", !.reply = "unauthorized"]
    <3>1. b.ticket = i.ticket
      BY <2>1 DEF Ingest
    <3>2. ingests' = [ingests EXCEPT ![r] = b]
      BY <2>3 DEF Authorize
    <3> HIDE DEF b
    <3> QED
      BY <2>1, <3>1, <3>2
  <2> QED
    BY <2>2, <2>3
<1>5. /\ \A s \in Refreshes : ingests'[s].ticket <= latestIngestTicket'
      /\ \A s, t \in Refreshes :
           s # t /\ ingests'[s].ticket = ingests'[t].ticket => ingests'[s].ticket = 0
  <2>1. \A s \in Refreshes : ingests'[s].ticket <= latestIngestTicket'
    BY <1>0, <1>1, <1>2, <1>3, <1>4 DEF TypeOK
  <2>2. ASSUME NEW s \in Refreshes, s # r,
               ingests'[s].ticket = ingests'[r].ticket
        PROVE  ingests'[s].ticket = 0
    BY <1>0, <1>1, <1>3, <1>4, <2>2 DEF TypeOK
  <2>3. ASSUME NEW s \in Refreshes, NEW t \in Refreshes, s # t,
               ingests'[s].ticket = ingests'[t].ticket
        PROVE  ingests'[s].ticket = 0
    BY <1>0, <1>1, <2>2, <2>3 DEF TypeOK
  <2> QED
    BY <2>1, <2>3
<1>6. TypeOK'
  BY <1>0, <1>1, <1>2, <1>5 DEF TypeOK, Authorize, writerVars
<1>7. IngestsOwn'
  BY <1>0, <1>1 DEF IngestsOwn, Authorize
<1>8. RunOrder' /\ SuccessIsCached'
  BY <1>0, <1>1 DEF RunOrder, SuccessIsCached, Authorize, writerVars
<1> QED
  BY <1>6, <1>7, <1>8 DEF IInv

LEMMA TakeIInv ==
  ASSUME IInv, NEW r \in Refreshes, Take(r) PROVE IInv'
<1>0. TypeOK /\ IngestsOwn /\ RunOrder /\ SuccessIsCached
  BY DEF IInv
<1>1. /\ ingests' \in [Refreshes -> Ingest]
      /\ \A s \in Refreshes : s # r => ingests'[s] = ingests[s]
      /\ ingests[r].at = "authorized" /\ ingests'[r].at = "returned"
      /\ ingests'[r].catalog = ingests[r].catalog
      /\ ingests'[r].ticket = ingests[r].ticket
  <2> DEFINE i == ingests[r]
             Answered(reply) == [i EXCEPT !.at = "returned", !.reply = reply]
  <2>1. i \in Ingest /\ i.at = "authorized"
    BY <1>0 DEF Take, TypeOK
  <2>2. PICK reply \in {"invalid", "unauthorized", "ok"} :
          ingests' = [ingests EXCEPT ![r] = Answered(reply)]
    BY DEF Take
  <2>3. Answered(reply) \in Ingest /\ Answered(reply).at = "returned"
        /\ Answered(reply).catalog = i.catalog /\ Answered(reply).ticket = i.ticket
    BY <2>1 DEF Ingest
  <2> HIDE DEF Answered
  <2> QED
    BY <1>0, <2>1, <2>2, <2>3 DEF TypeOK
<1>2. /\ ingests[r].catalog \in Catalog
      /\ held' \subseteq held \cup {ingests[r].catalog} /\ held \subseteq held'
      /\ ingests'[r].reply = "ok" => ingests[r].catalog \in held'
  <2>1. ingests[r].at = "authorized" /\ ingests[r] \in Ingest
        /\ ingests \in [Refreshes -> Ingest]
    BY <1>0 DEF Take, TypeOK
  <2>2. ingests[r].catalog \in Catalog
    BY <1>0, <2>1 DEF IngestsOwn
  <2>3. CASE held' = held /\ ingests'[r].reply # "ok"
    BY <2>2, <2>3
  <2>4. CASE held' = held \cup {ingests[r].catalog}
    BY <2>2, <2>4
  <2>5. ASSUME NEW reply \in {"invalid", "unauthorized"},
               ingests' = [ingests EXCEPT ![r].at = "returned", ![r].reply = reply]
        PROVE  ingests'[r].reply # "ok"
    BY <2>1, <2>5 DEF Ingest
  <2>7. CASE \E reply \in {"invalid", "unauthorized"} :
          held' = held /\ ingests' = [ingests EXCEPT ![r].at = "returned", ![r].reply = reply]
    BY <2>3, <2>5, <2>7
  <2> QED
    BY <2>4, <2>7 DEF Take
<1>3. /\ last' \in Catalog \cup {NoCatalog}
      /\ committedIngestTicket' \in 0 .. latestIngestTicket
  <2>1. ingests[r].ticket \in Nat /\ ingests[r].ticket <= latestIngestTicket
        /\ latestIngestTicket \in Nat
    BY <1>0 DEF TypeOK, Ingest
  <2>2. CASE last' = last /\ committedIngestTicket' = committedIngestTicket
    BY <1>0, <2>2 DEF TypeOK
  <2>3. CASE last' = ingests[r].catalog /\ committedIngestTicket' = ingests[r].ticket
    BY <1>2, <2>1, <2>3
  <2> QED
    BY <2>2, <2>3 DEF Take
<1>4. \A s \in Refreshes : ingests'[s].ticket = ingests[s].ticket
  BY <1>1
<1>5. TypeOK'
  BY <1>0, <1>1, <1>2, <1>3, <1>4 DEF TypeOK, Take, writerVars
<1>6. IngestsOwn'
  BY <1>0, <1>1, <1>2 DEF IngestsOwn
<1>7. RunOrder' /\ SuccessIsCached'
  BY <1>0, <1>1, <1>2 DEF RunOrder, SuccessIsCached, Take, writerVars
<1> QED
  BY <1>5, <1>6, <1>7 DEF IInv

LEMMA VanishIInv ==
  ASSUME IInv, NEW r \in Refreshes, Vanish(r) PROVE IInv'
<1>0. TypeOK /\ IngestsOwn /\ RunOrder /\ SuccessIsCached
  BY DEF IInv
<1>1. NoIngest \in Ingest /\ ingests' = [ingests EXCEPT ![r] = NoIngest]
  BY DEF NoIngest, Ingest, Vanish
<1>2. \A s \in Refreshes : ingests[s].ticket \in Nat
  BY <1>0 DEF TypeOK, Ingest
<1>3. TypeOK'
  BY <1>0, <1>1, <1>2 DEF TypeOK, Vanish, NoIngest, infoVars, writerVars
<1>4. IngestsOwn'
  BY <1>0, <1>1 DEF IngestsOwn, Vanish, NoIngest, TypeOK
<1>5. RunOrder' /\ SuccessIsCached'
  BY <1>0, <1>1 DEF RunOrder, SuccessIsCached, Vanish, writerVars, TypeOK
<1> QED
  BY <1>3, <1>4, <1>5 DEF IInv

\* The steps of the run that send nothing to model-info, and the edits.
LEMMA RunIInv ==
  ASSUME IInv, Edit \/ Start \/ ReadConfig \/ FetchCatalog \/ Receipt \/ Fail
  PROVE  IInv'
<1>0. TypeOK /\ IngestsOwn /\ RunOrder /\ SuccessIsCached
  BY DEF IInv
<1>1. CASE Edit
  <2>1. TypeOK'
    BY <1>0, <1>1, RefreshBounds DEF TypeOK, Edit, infoVars, writerVars
  <2>2. RunOrder'
    <3>1. fetched \in Catalog => fetched.version \in Nat
      BY RefreshBounds DEF Catalog
    <3> QED
      BY <1>0, <1>1, <3>1, RefreshBounds DEF RunOrder, TypeOK, Edit, infoVars, writerVars
  <2> QED
    BY <1>0, <1>1, <2>1, <2>2 DEF IInv, IngestsOwn, SuccessIsCached, Edit, infoVars, writerVars
<1>2. CASE Start
  <2>1. TypeOK' /\ RunOrder'
    BY <1>0, <1>2, RefreshBounds DEF TypeOK, RunOrder, Start, infoVars, Outcome
  <2> QED
    BY <1>0, <1>2, <2>1 DEF IInv, IngestsOwn, SuccessIsCached, Start, infoVars
<1>3. CASE ReadConfig
  <2>1. TypeOK' /\ RunOrder'
    BY <1>0, <1>3, RefreshBounds DEF TypeOK, RunOrder, ReadConfig, End, infoVars, Outcome
  <2> QED
    BY <1>0, <1>3, <2>1
    DEF IInv, IngestsOwn, RunOrder, SuccessIsCached, ReadConfig, End, infoVars
<1>4. CASE FetchCatalog
  <2>1. fetched' \in Catalog /\ fetched'.refresh = refresh /\ fetched'.version = version
    BY <1>0, <1>4 DEF FetchCatalog, Catalog, RunOrder, TypeOK
  <2>2. TypeOK' /\ RunOrder'
    BY <1>0, <1>4, <2>1, RefreshBounds DEF TypeOK, RunOrder, FetchCatalog, infoVars, Outcome
  <2> QED
    BY <1>0, <1>4, <2>2 DEF IInv, IngestsOwn, RunOrder, SuccessIsCached, FetchCatalog, infoVars
<1>5. CASE Receipt
  <2>1. TypeOK' /\ RunOrder'
    BY <1>0, <1>5 DEF TypeOK, RunOrder, Receipt, End, infoVars, Outcome
  <2>2. SuccessIsCached'
    BY <1>0, <1>5 DEF SuccessIsCached, IngestsOwn, RunOrder, Receipt, End
  <2> QED
    BY <1>0, <1>5, <2>1, <2>2 DEF IInv, IngestsOwn, Receipt, infoVars
<1>6. CASE Fail
  <2>1. TypeOK' /\ RunOrder'
    BY <1>0, <1>6 DEF TypeOK, RunOrder, Fail, End, infoVars, Outcome
  <2> QED
    BY <1>0, <1>6, <2>1 DEF IInv, IngestsOwn, SuccessIsCached, Fail, End, infoVars
<1> QED
  BY <1>1, <1>2, <1>3, <1>4, <1>5, <1>6

LEMMA RecheckIInv ==
  ASSUME IInv, Recheck PROVE IInv'
<1>0. TypeOK /\ IngestsOwn /\ RunOrder /\ SuccessIsCached /\ refresh \in Refreshes
  BY DEF IInv, RunOrder, Recheck
<1>1. CASE Unchanged /\ pc' = "post"
  <2> DEFINE sent == [NoIngest EXCEPT !.at = "sent", !.catalog = fetched]
  <2>1. /\ ingests' = [ingests EXCEPT ![refresh] = sent]
        /\ fetched \in Catalog /\ fetched.refresh = refresh
        /\ UNCHANGED <<version, infoVars, refresh, read, fetched, held, outcome>>
    BY <1>0, <1>1 DEF Recheck, RunOrder, End
  <2>2. /\ sent \in Ingest /\ sent.ticket = 0 /\ sent.at = "sent"
        /\ sent.catalog = fetched /\ sent.reply = "none"
    BY <2>1 DEF NoIngest, Ingest
  <2> HIDE DEF sent
  <2>3. \A s \in Refreshes : ingests[s].ticket \in Nat
    BY <1>0 DEF TypeOK, Ingest
  <2>4. TypeOK'
    BY <1>0, <1>1, <2>1, <2>2, <2>3 DEF TypeOK, infoVars
  <2>5. IngestsOwn'
    BY <1>0, <2>1, <2>2 DEF IngestsOwn, TypeOK
  <2>6. fetched.version = read /\ fetched.version <= version
    BY <1>0, <1>1, <2>1, RefreshBounds DEF Recheck, RunOrder, Unchanged, TypeOK, Catalog
  <2>7. RunOrder' /\ SuccessIsCached'
    BY <1>0, <1>1, <2>1, <2>2, <2>6, RefreshBounds
    DEF RunOrder, SuccessIsCached, Recheck, TypeOK, Catalog
  <2> QED
    BY <2>4, <2>5, <2>7 DEF IInv
<1>2. CASE ~ Unchanged /\ End("version_conflict") /\ UNCHANGED ingests
  <2>1. TypeOK' /\ RunOrder'
    BY <1>0, <1>2 DEF TypeOK, RunOrder, Recheck, End, infoVars, Outcome
  <2> QED
    BY <1>0, <1>2, <2>1 DEF IInv, IngestsOwn, SuccessIsCached, Recheck, End, infoVars
<1> QED
  BY <1>1, <1>2 DEF Recheck

LEMMA StepIInv == IInv /\ [Next]_vars => IInv'
<1> SUFFICES ASSUME IInv, [Next]_vars PROVE IInv'
  OBVIOUS
<1>1. CASE Next
  BY <1>1, ReconfiguredIInv, AuthorizeIInv, TakeIInv, VanishIInv, RunIInv, RecheckIInv DEF Next
<1>2. CASE UNCHANGED vars
  BY <1>2 DEF IInv, TypeOK, IngestsOwn, RunOrder, SuccessIsCached, vars, infoVars, writerVars
<1> QED
  BY <1>1, <1>2

THEOREM RefreshInvariance == Spec => []IInv
<1> QED
  BY InitIInv, StepIInv, PTL DEF Spec

\* Types, and that no ticket is held twice or was not handed out (service.go:178-198).
THEOREM RefreshTypeCorrect == Spec => []TypeOK
<1>1. IInv => TypeOK
  BY DEF IInv
<1> QED
  BY <1>1, RefreshInvariance, PTL

\* A refresh that succeeded has put its catalog in the cache (model_info.go:73-108).
THEOREM SuccessTheorem == Spec => []SuccessIsCached
<1>1. IInv => SuccessIsCached
  BY DEF IInv
<1> QED
  BY <1>1, RefreshInvariance, PTL

\* Of several ingests the one authorized last has the last word (service.go:200-224).
THEOREM LatestTheorem == Spec => LatestIngestWins
<1> DEFINE Wins == \A r \in Refreshes : last' # last /\ last' = ingests[r].catalog =>
                     /\ configured /\ ingests[r].generation = reconfigureSeq
                     /\ \A s \in Refreshes : ingests[s].ticket <= ingests[r].ticket
<1>1. IInv /\ [Next]_vars => [Wins]_vars
  <2> SUFFICES ASSUME IInv, Next, NEW r \in Refreshes,
                      last' # last, last' = ingests[r].catalog
               PROVE  /\ configured /\ ingests[r].generation = reconfigureSeq
                      /\ \A s \in Refreshes : ingests[s].ticket <= ingests[r].ticket
    OBVIOUS
  <2>1. PICK q \in Refreshes : Take(q)
    BY DEF Next, Configure, Shutdown, Authorize, Vanish, Edit, Start, ReadConfig, FetchCatalog,
           Recheck, Receipt, Fail, infoVars
  <2>2. /\ ingests[q].catalog.valid /\ replaceCatalog(ingests[q])
        /\ last' = ingests[q].catalog /\ ingests[q].at = "authorized"
    BY <2>1 DEF Take
  <2>3. r = q
    <3>1. ingests[q].catalog # NoCatalog
      BY <2>2 DEF NoCatalog
    <3>2. ingests[r].at # "none" /\ ingests[q].at # "none"
      BY <2>2, <3>1 DEF IInv, IngestsOwn
    <3>3. ingests[r].catalog.refresh = r /\ ingests[q].catalog.refresh = q
      BY <3>2 DEF IInv, IngestsOwn
    <3> QED
      BY <2>2, <3>3
  <2> QED
    BY <2>2, <2>3 DEF replaceCatalog, IInv, TypeOK
<1> QED
  BY <1>1, RefreshInvariance, PTL DEF Spec, LatestIngestWins
=============================================================================
