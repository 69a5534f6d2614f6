--------------------------- MODULE CatalogRefresh ---------------------------
(***************************************************************************)
(* The model catalog: how a refresh run of the Writer fetches it from Core *)
(* (Refresh of model_info.go) and how model-info takes it into its cache   *)
(* (service.go and handleIngest of management.go).                         *)
(*                                                                         *)
(* The Writer reads the config, picks the API key, fetches the catalog     *)
(* with it, reads the config again, and posts the catalog if the config is *)
(* still the same.  Model-info gives every authorized ingest a ticket,     *)
(* checks the catalog without holding its mutex, and takes it only if no   *)
(* other ingest and no reconfiguration has come in between.                *)
(*                                                                         *)
(* Refreshes follow one another, but a post that fails at the transport    *)
(* may still be worked on, or begin, while later refreshes run.  A config  *)
(* that is edited never becomes what it was before.  An operator with a    *)
(* suffix is a mutated form of the one below it.                           *)
(***************************************************************************)
EXTENDS Integers, FiniteSets

CONSTANTS
  MaxRefreshes,  \* bound on the refresh runs
  MaxEdits,      \* bound on the edits of the config
  MaxGeneration  \* bound on the configurations of model-info

ASSUME RefreshBounds ==
  MaxRefreshes \in Nat /\ MaxEdits \in Nat /\ MaxGeneration \in Nat \ {0}

Refreshes == 1 .. MaxRefreshes
Version   == 0 .. MaxEdits

\* A catalog, told apart by the refresh that fetched it and the version of the config
\* then; whether it parses.
Catalog == [refresh : Refreshes, version : Version, valid : BOOLEAN]
NoCatalog == [refresh |-> 0, version |-> 0, valid |-> FALSE]

\* An ingest request and what its handler has noted.
Ingest == [at : {"none", "sent", "authorized", "returned"}, catalog : Catalog \cup {NoCatalog},
           generation : Nat, ticket : Nat, reply : {"none", "ok", "unauthorized", "invalid"}]
NoIngest == [at |-> "none", catalog |-> NoCatalog, generation |-> 0, ticket |-> 0,
             reply |-> "none"]

Outcome == {"none", "succeeded", "core_unavailable", "catalog_key_unavailable",
            "version_conflict", "catalog_invalid"}

VARIABLES
  version,   \* of the config in Core
  \* model-info
  configured, reconfigureSeq, latestIngestTicket, committedIngestTicket, last,
  ingests,   \* the ingest of each refresh
  \* the Writer
  refresh,   \* the run, 0 before the first
  pc,        \* what it does next
  read,      \* the version it has read
  fetched,   \* the catalog it has fetched
  outcome,   \* of the run
  held       \* ghost: the catalogs the cache has held

infoVars   == <<configured, reconfigureSeq, latestIngestTicket, committedIngestTicket, last>>
writerVars == <<refresh, pc, read, fetched, outcome>>
vars == <<version, infoVars, ingests, writerVars, held>>

-----------------------------------------------------------------------------
(* Model-info. *)

\* A new configuration; it takes a ticket, so that no ingest authorized before counts
\* as the latest.
Configure ==
  /\ reconfigureSeq < MaxGeneration
  /\ configured' = TRUE /\ reconfigureSeq' = reconfigureSeq + 1
  /\ latestIngestTicket' = latestIngestTicket + 1
  /\ UNCHANGED <<version, committedIngestTicket, last, ingests, writerVars, held>>

Shutdown ==
  /\ configured
  /\ configured' = FALSE
  /\ latestIngestTicket' = latestIngestTicket + 1
  /\ UNCHANGED <<version, reconfigureSeq, committedIngestTicket, last, ingests, writerVars,
                 held>>

NextTicket_fresh == reconfigureSeq

\* The ticket of the next ingest.
NextTicket == latestIngestTicket + 1

\* authorize: the Writer's token is right, so the ingest has a ticket when the plugin
\* is configured.
Authorize(r) ==
  /\ ingests[r].at = "sent"
  /\ \/ /\ configured
        /\ latestIngestTicket' = NextTicket
        /\ ingests' = [ingests EXCEPT ![r].at = "authorized", ![r].ticket = NextTicket,
                                      ![r].generation = reconfigureSeq]
     \/ /\ ~ configured
        /\ ingests' = [ingests EXCEPT ![r].at = "returned", ![r].reply = "unauthorized"]
        /\ UNCHANGED latestIngestTicket
  /\ UNCHANGED <<version, configured, reconfigureSeq, committedIngestTicket, last, writerVars,
                 held>>

replaceCatalog_newer(ingest) == configured /\ ingest.ticket > committedIngestTicket

\* Whether an ingest may still replace the catalog.
replaceCatalog(ingest) ==
  /\ configured /\ ingest.generation = reconfigureSeq
  /\ ingest.ticket = latestIngestTicket /\ ingest.ticket > committedIngestTicket

\* The rest of handleIngest: the catalog is checked, and taken or not.
Take(r) ==
  LET ingest == ingests[r]
      Reply(reply) == ingests' = [ingests EXCEPT ![r].at = "returned", ![r].reply = reply]
  IN
  /\ ingest.at = "authorized"
  /\ \/ /\ ~ ingest.catalog.valid
        /\ Reply("invalid")
        /\ UNCHANGED <<last, committedIngestTicket, held>>
     \/ /\ ingest.catalog.valid /\ ~ replaceCatalog(ingest)
        /\ Reply("unauthorized")
        /\ UNCHANGED <<last, committedIngestTicket, held>>
     \/ /\ ingest.catalog.valid /\ replaceCatalog(ingest)
        /\ last' = ingest.catalog /\ committedIngestTicket' = ingest.ticket
        /\ held' = held \cup {ingest.catalog}
        /\ Reply("ok")
  /\ UNCHANGED <<version, configured, reconfigureSeq, latestIngestTicket, writerVars>>

\* A post the Writer has given up may never arrive.
Vanish(r) ==
  /\ ingests[r].at = "sent" /\ (r # refresh \/ pc = "idle")
  /\ ingests' = [ingests EXCEPT ![r] = NoIngest]
  /\ UNCHANGED <<version, infoVars, writerVars, held>>

-----------------------------------------------------------------------------
(* Core and the Writer. *)

Edit ==
  /\ version < MaxEdits
  /\ version' = version + 1
  /\ UNCHANGED <<infoVars, ingests, writerVars, held>>

Start ==
  /\ pc = "idle" /\ refresh < MaxRefreshes
  /\ refresh' = refresh + 1 /\ pc' = "read"
  /\ outcome' = "none" /\ fetched' = NoCatalog
  /\ UNCHANGED <<version, infoVars, ingests, read, held>>

End(result) == pc' = "idle" /\ outcome' = result

\* The first GET of the config, and the key picked from it.
ReadConfig ==
  /\ pc = "read"
  /\ read' = version
  /\ \/ pc' = "fetch" /\ UNCHANGED outcome
     \/ End("catalog_key_unavailable")
  /\ UNCHANGED <<version, infoVars, ingests, refresh, fetched, held>>

FetchCatalog ==
  /\ pc = "fetch" /\ pc' = "recheck"
  /\ \E valid \in BOOLEAN :
       fetched' = [refresh |-> refresh, version |-> version, valid |-> valid]
  /\ UNCHANGED <<version, infoVars, ingests, refresh, read, outcome, held>>

Unchanged_assumed == TRUE

\* Whether the config is the one the run began with.
Unchanged == version = read

\* The second GET, and the catalog is posted.
Recheck ==
  /\ pc = "recheck"
  /\ \/ /\ Unchanged
        /\ pc' = "post"
        /\ ingests' = [ingests EXCEPT ![refresh] = [NoIngest EXCEPT !.at = "sent",
                                                                    !.catalog = fetched]]
        /\ UNCHANGED outcome
     \/ /\ ~ Unchanged
        /\ End("version_conflict")
        /\ UNCHANGED ingests
  /\ UNCHANGED <<version, infoVars, refresh, read, fetched, held>>

\* The answer of model-info.  A receipt carries the hash of the catalog that was taken.
Receipt ==
  /\ pc = "post" /\ ingests[refresh].at = "returned"
  /\ End(CASE ingests[refresh].reply = "ok"      -> "succeeded"
           [] ingests[refresh].reply = "invalid" -> "catalog_invalid"
           [] OTHER                              -> "core_unavailable")
  /\ UNCHANGED <<version, infoVars, ingests, refresh, read, fetched, held>>

\* Any request may fail, and the post may be at work then.
Fail ==
  /\ pc # "idle"
  /\ End("core_unavailable")
  /\ UNCHANGED <<version, infoVars, ingests, refresh, read, fetched, held>>

-----------------------------------------------------------------------------
Init ==
  /\ version = 0
  /\ configured = TRUE /\ reconfigureSeq = 1
  /\ latestIngestTicket = 1 /\ committedIngestTicket = 0 /\ last = NoCatalog
  /\ ingests = [r \in Refreshes |-> NoIngest]
  /\ refresh = 0 /\ pc = "idle" /\ read = 0 /\ fetched = NoCatalog /\ outcome = "none"
  /\ held = {}

Next ==
  \/ Configure \/ Shutdown
  \/ \E r \in Refreshes : Authorize(r) \/ Take(r) \/ Vanish(r)
  \/ Edit
  \/ Start \/ ReadConfig \/ FetchCatalog \/ Recheck \/ Receipt \/ Fail

Spec == Init /\ [][Next]_vars

-----------------------------------------------------------------------------
\* Types, and that tickets are counted: no ingest holds one that was not handed out,
\* and no two hold the same.
TypeOK ==
  /\ version \in Version
  /\ configured \in BOOLEAN /\ reconfigureSeq \in 1 .. MaxGeneration
  /\ latestIngestTicket \in Nat /\ committedIngestTicket \in 0 .. latestIngestTicket
  /\ last \in Catalog \cup {NoCatalog} /\ held \subseteq Catalog
  /\ ingests \in [Refreshes -> Ingest]
  /\ \A r \in Refreshes : ingests[r].ticket <= latestIngestTicket
  /\ \A r, s \in Refreshes :
       r # s /\ ingests[r].ticket = ingests[s].ticket => ingests[r].ticket = 0
  /\ refresh \in 0 .. MaxRefreshes /\ read \in Version
  /\ pc \in {"idle", "read", "fetch", "recheck", "post"}
  /\ fetched \in Catalog \cup {NoCatalog} /\ outcome \in Outcome

\* The cache takes a catalog only while the plugin has the configuration under which
\* the ingest was authorized, and no ingest authorized later than that one exists,
\* whether that one has been taken, was found invalid or is still being checked: of
\* two refreshes the later one to arrive has the last word (service.go:200-224).
LatestIngestWins ==
  [][\A r \in Refreshes : last' # last /\ last' = ingests[r].catalog =>
       /\ configured /\ ingests[r].generation = reconfigureSeq
       /\ \A s \in Refreshes : ingests[s].ticket <= ingests[r].ticket]_vars

\* A refresh that succeeded has put its catalog in the cache, and Core served that
\* catalog under the version of the config the run reports (model_info.go:73-108).
SuccessIsCached ==
  outcome = "succeeded" => fetched \in held /\ fetched.version = read
=============================================================================
