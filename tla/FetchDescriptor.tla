-------------------------- MODULE FetchDescriptor --------------------------
(***************************************************************************)
(* One fetch of a provider catalog, as two programs see it.  A planner     *)
(* finds its channel in the config snapshot and writes a descriptor of the *)
(* request it needs (locateSnapshotChannel, snapshotCatalogHeaders and     *)
(* nextFetch of the planners).  The Writer, which holds the same snapshot, *)
(* derives from it what such a request may be and refuses any other        *)
(* (validateFetchDescriptorForOperation of provider_relay.go).  Neither    *)
(* knows the other's rules: they are written twice.                        *)
(*                                                                         *)
(* An entry of the snapshot has a label, which is the name of an OpenAI    *)
(* compatible channel and the prefix of a Claude key, and headers, a       *)
(* function from the names that are set to their values.  A base is a      *)
(* host, whether a path follows it, whether it ends with a question mark   *)
(* that no query follows, and its length.  It is in normal form: the two   *)
(* programs normalise a URL by the same code.                              *)
(***************************************************************************)
EXTENDS Integers, FiniteSets, FiniteSetsExt, Functions, TLC

CONSTANTS
  Size(_),         \* the length of a piece of a URL as it stands there, and of the
  MaxURL,          \* the greatest length the Writer lets through of a URL,
  MaxHeaderValue,  \*   of the value of a header,
  MaxHeaders,      \*   and of the headers together
  OddIndex,        \* credentials whose index is too long or has a control character
  Unsettled        \* prefixes of Claude channels that trimming twice does not leave
                   \*   as trimming once does: "/ a" becomes " a", and then "a"

\* A name, a cursor or a value that is not given.
Empty == ""

Kind == {"openai", "claude"}
Operation == {"auto_pull", "metadata"}

\* User-Agent stands for the other headers an entry may add to a request, Cookie for
\* the other ones it must not have.
PlannerSafe == {"accept", "anthropic-version", "user-agent"}
Credential == {"authorization", "x-api-key"}
Forbidden == Credential \cup {"cookie"}
WriterSafe == PlannerSafe \cup Credential

\* "json" is application/json, "fixed" the version of the Anthropic API the
\* programs know, "token" the placeholder that Core fills in, "long" and
\* "large" others, of any length.
HeaderValue == {Empty, "json", "fixed", "other", "long", "large", "token"}
Headers == UNION {[names -> HeaderValue] : names \in SUBSET WriterSafe}
EntryHeaders ==
  UNION {[names -> HeaderValue] : names \in SUBSET (PlannerSafe \cup Forbidden)}

Base == [host : STRING, path : BOOLEAN, mark : BOOLEAN, size : Nat]

\* The value of a header, empty when it is not set.
ValueOf(headers, name) ==
  IF name \in DOMAIN headers THEN headers[name] ELSE Empty

\* Headers with one more, which may replace the one of its name.
Adding(headers, name, value) ==
  [n \in DOMAIN headers \cup {name} |-> IF n = name THEN value ELSE headers[n]]

HeadersIn(headers, names) == Restrict(headers, DOMAIN headers \cap names)

OnAnthropic(base) == base.host = "anthropic"

---------------------------------------------------------------------------
(* The planners.                                                           *)

\* The entries the selector of a channel names.  A Claude selector has the
\* index of its entry, an OpenAI one the name and base.
Selected(snapshot, spec) ==
  LET entries == snapshot[spec.kind] IN
  {i \in DOMAIN entries :
     /\ entries[i].label = spec.label
     /\ entries[i].base = spec.base
     /\ entries[i].disabled = "no"
     /\ spec.kind = "claude" => i = spec.index}

\* The channel is in the snapshot, once, with a list of models that have a name
\* each and headers that can be used.  A disabled that is not a boolean spoils the
\* entry of a Claude channel and the whole list of OpenAI channels.
Locatable(snapshot, spec) ==
  LET entries == snapshot[spec.kind]
      found   == Selected(snapshot, spec) IN
  /\ Cardinality(found) = 1
  /\ spec.kind = "openai" => \A i \in DOMAIN entries : entries[i].disabled # "odd"
  /\ \A i \in found :
       /\ entries[i].direct
       /\ entries[i].named
       /\ DOMAIN entries[i].headers \cap Forbidden = {}

Located(snapshot, spec) ==
  snapshot[spec.kind][CHOOSE i \in Selected(snapshot, spec) : TRUE]

snapshotCatalogHeaders(entry) == HeadersIn(entry.headers, PlannerSafe)

\* The two planners differ on an Accept that is configured and empty.
OpenAIHeaders_Bearer(op, entry) ==
  Adding(snapshotCatalogHeaders(entry), "authorization", "Bearer")
OpenAIHeaders(op, entry) ==
  LET safe == snapshotCatalogHeaders(entry)
      acceptUnset == IF op = "metadata"
                     THEN ValueOf(safe, "accept") = Empty
                     ELSE "accept" \notin DOMAIN safe
  IN  Adding(IF acceptUnset THEN Adding(safe, "accept", "json") ELSE safe,
             "authorization", "token")

\* The second case of the code asks for a header that no safe one is.
ClaudeHeaders(spec, entry) ==
  LET safe == snapshotCatalogHeaders(entry) IN
  CASE OnAnthropic(spec.base) ->
         Adding(Adding(safe, "anthropic-version", "fixed"), "x-api-key", "token")
    [] ~OnAnthropic(spec.base) /\ "x-api-key" \in DOMAIN safe ->
         Adding(safe, "x-api-key", "token")
    [] OTHER -> Adding(safe, "authorization", "token")

catalogKind(spec) ==
  IF spec.kind = "claude" THEN "claude_models" ELSE "openai_models"

CatalogKind == {"openai_models", "claude_models"}
PublicKind == {"modelparams", "modelsdev"}

NoBase == [host |-> "none", path |-> FALSE, mark |-> FALSE, size |-> 0]

\* The request for the catalog of a channel.  query is what follows the path:
\* "codex" for the manifest of Codex, the cursor of a page of Claude's, or none.
CatalogDescriptor(op, snapshot, spec, after, index) ==
  LET entry == Located(snapshot, spec) IN
  [kind |-> catalogKind(spec), label |-> spec.label, base |-> spec.base,
   index |-> spec.index, auth |-> index, urlBase |-> spec.base,
   resource |-> IF spec.kind = "claude" THEN "v1/models" ELSE "models",
   query |-> IF spec.kind = "claude" THEN after
             ELSE IF spec.codex THEN "codex" ELSE Empty,
   headers |-> IF spec.kind = "claude" THEN ClaudeHeaders(spec, entry)
               ELSE OpenAIHeaders(op, entry)]

\* The request for a public catalog, which names no channel.
PublicDescriptor(kind) ==
  [kind |-> kind, label |-> Empty, base |-> NoBase, index |-> 0, auth |-> Empty,
   urlBase |-> NoBase, resource |-> kind, query |-> Empty,
   headers |-> Adding(<< >>, "accept", "json")]

---------------------------------------------------------------------------
(* The Writer.                                                             *)

\* The headers an entry has a request carry, and the credentials it sets.
catalogHeaders(entry) == HeadersIn(entry.headers, WriterSafe \ Credential)
credentialForms(entry) == DOMAIN entry.headers \cap Credential

\* A request carries its credential, what is configured and what is required,
\* and may ask for JSON.
validateCatalogHeaders(headers, configured, credential, required) ==
  /\ \A name \in Credential :
       ValueOf(headers, name) = IF name = credential THEN "token" ELSE Empty
  /\ \A name \in DOMAIN configured :
       /\ name \in DOMAIN required => required[name] = configured[name]
       /\ ValueOf(headers, name) = configured[name]
  /\ \A name \in DOMAIN required : ValueOf(headers, name) = required[name]
  /\ \A name \in DOMAIN headers :
       \/ name = credential
       \/ name \in DOMAIN configured
       \/ name \in DOMAIN required
       \/ name = "accept" /\ headers[name] = "json"

\* How long a URL and its headers may be.
WithinLimits(d) ==
  /\ d.urlBase.size + Size(d.resource) + Size(d.query) <= MaxURL
  /\ \A name \in DOMAIN d.headers : Size(d.headers[name]) <= MaxHeaderValue
  /\ MapThenSumSet(LAMBDA name : Size(name) + Size(d.headers[name]), DOMAIN d.headers)
       <= MaxHeaders

ASSUME LimitsAssumption ==
  /\ Empty \notin OddIndex
  /\ \A kind \in PublicKind : WithinLimits(PublicDescriptor(kind))

validateOpenAIFetch(op, snapshot, d) ==
  LET entries == snapshot["openai"]
      found == {i \in DOMAIN entries :
                  /\ entries[i].label = d.label
                  /\ entries[i].base = d.base
                  /\ entries[i].disabled = "no"}
  IN  /\ d.urlBase = d.base /\ d.resource = "models" /\ ~d.base.mark
      /\ \/ d.query = Empty
         \/ d.query = "codex" /\ op = "metadata"
      /\ Cardinality(found) = 1
      /\ \A i \in found :
           /\ entries[i].direct
           /\ credentialForms(entries[i]) = {}
           /\ validateCatalogHeaders(d.headers, catalogHeaders(entries[i]),
                                     "authorization", << >>)

\* The path of the URL must be that of the Anthropic API, so a base that has a
\* path of its own never passes, nor one whose question mark makes it a query.
validateClaudeFetch(op, snapshot, d) ==
  LET entries == snapshot["claude"] IN
  /\ d.urlBase.host = d.base.host /\ ~d.urlBase.path /\ ~d.urlBase.mark
  /\ d.resource = "v1/models" /\ d.label \notin Unsettled
  /\ d.index \in DOMAIN entries
  /\ LET entry == entries[d.index]
         forms == credentialForms(entry)
     IN  /\ entry.direct
         /\ entry.base = d.base /\ entry.label = d.label
         /\ IF OnAnthropic(d.base)
            THEN /\ forms = {}
                 /\ validateCatalogHeaders(d.headers, catalogHeaders(entry),
                      "x-api-key", [name \in {"anthropic-version"} |-> "fixed"])
            ELSE /\ forms # Credential
                 /\ validateCatalogHeaders(d.headers, catalogHeaders(entry),
                      IF "x-api-key" \in forms THEN "x-api-key"
                      ELSE "authorization", << >>)

validatePublicFetch(d) ==
  /\ d.label = Empty /\ d.base = NoBase
  /\ d.urlBase = NoBase /\ d.resource = d.kind
  /\ validateCatalogHeaders(d.headers, << >>, Empty, << >>)

validateFetchDescriptor(op, snapshot, d) ==
  /\ d.auth \notin OddIndex /\ WithinLimits(d)
  /\ DOMAIN d.headers \subseteq WriterSafe
  /\ (d.kind \in CatalogKind)
       <=> (d.auth # Empty /\ Cardinality(DOMAIN d.headers \cap Credential) = 1)
  /\ CASE d.kind = "openai_models" -> validateOpenAIFetch(op, snapshot, d)
       [] d.kind = "claude_models" -> validateClaudeFetch(op, snapshot, d)
       [] OTHER                    -> validatePublicFetch(d)

=============================================================================
