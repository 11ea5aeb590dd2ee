------------------------------ MODULE ClientToken ------------------------------
(***************************************************************************)
(* The updates of a client while the application uses its services:         *)
(* SetAuthToken, SetBearerToken, SetHTTPClient and SetBaseURL of sdk.go,    *)
(* which change the parts of the client one after the other, and the places *)
(* where a request picks up its token: the generated client the service was *)
(* made with, a field read by the request editor, the AuthRoundTripper of   *)
(* uploads and downloads, which reads its token under a lock that it holds  *)
(* until the answer's headers are there.                                    *)
(*                                                                         *)
(* Tokens are numbered in the order they are set, 0 being the empty one;    *)
(* `config` numbers the base URL and HTTP client in the same way.  One      *)
(* goroutine updates, for the Client has no lock.                           *)
(***************************************************************************)
EXTENDS Naturals, Sequences

CONSTANTS
  Users,        \* the application's goroutines that make requests
  Used,         \* the services they use
  MaxToken,     \* bound: tokens set
  MaxConfig     \* bound: base URLs and HTTP clients set

\* The services on the generated client, in the order rebuildInternalGen makes them.
Generated == <<"dns", "ipns", "websites", "workspaces", "ping", "dag">>
Recreated == {Generated[i] : i \in DOMAIN Generated}

\* "meta" and "store": metadata queries of the download service and of its
\* rate-limited blockstore.
OnGenerated == Recreated \union {"meta", "store"}
Services == OnGenerated \union {"pinning", "upload", "download"}

Tokens == 0..MaxToken
Configs == 0..MaxConfig
Clients == [token : Tokens, config : Configs, own : BOOLEAN]

ASSUME BoundsAssumption ==
  /\ MaxToken \in Nat /\ MaxConfig \in Nat
  /\ Used \subseteq Services

VARIABLES
  bearer,     \* Client.bearerToken and the request editor made from it
  config,     \* Client.baseURL and httpClient
  gen,        \* Client.internalGen
  service,    \* the generated client under each service
  field,      \* the authToken of the long-lived services
  transport,  \* the token of the round trippers of upload and download
  todo,       \* the steps the running update has left
  token,      \* the token it sets
  scope,      \* the services it is for
  pc,         \* where each user is
  uses,       \* the service it uses
  client,     \* the generated client its request goes through
  header,     \* the token its request carries, and the configuration
  promise,    \* history: what finished updates have promised of each service
  obtained,   \* history: what they had when the user got the service, if it is
              \* one that is recreated
  begun,      \* history: and when it began its request
  calm        \* history: no update ran since then

clientVars == <<bearer, config, gen, service, field, transport>>
updateVars == <<todo, token, scope, promise>>
userVars   == <<pc, uses, client, header, obtained, begun, calm>>
vars == <<clientVars, updateVars, userVars>>

Fresh == [token |-> 0, config |-> 0, own |-> FALSE]
Nothing == [token |-> 0, config |-> 0]

\* All parts of a new client have its base URL and its token.
NewClient(t) ==
  /\ bearer = t /\ config = 0
  /\ gen = [Fresh EXCEPT !.token = t]
  /\ service = [s \in OnGenerated |-> gen]
  /\ field = [s \in {"pinning", "upload", "download"} |-> t]
  /\ transport = [s \in {"upload", "download"} |-> t]

Init ==
  /\ token \in {0, 1} \intersect Tokens
  /\ NewClient(token)
  /\ todo = <<>> /\ scope = {}
  /\ promise = [s \in Services |-> Nothing]
  /\ pc = [u \in Users |-> "idle"]
  /\ uses = [u \in Users |-> "none"]
  /\ client = [u \in Users |-> Fresh]
  /\ header = [u \in Users |-> Nothing]
  /\ obtained = [u \in Users |-> Nothing]
  /\ begun = [u \in Users |-> Nothing]
  /\ calm = [u \in Users |-> FALSE]

-----------------------------------------------------------------------------
(* The updates, as the steps they take; each names the part it changes. *)

rebuildInternalGen == <<"gen">> \o Generated \o <<"meta", "store">>
SetBearerToken == <<"bearer">> \o rebuildInternalGen
SetHTTPClient == <<"config">> \o rebuildInternalGen

\* Mutant: the services made twice.
RebuildTwice == <<"config">> \o rebuildInternalGen \o rebuildInternalGen

SetBaseURL == <<"config">> \o rebuildInternalGen

\* DownloadService.SetAuthToken makes metadata clients of its own.
DownloadSetAuthToken == <<"download", "downloadTransport", "ownMeta", "ownStore">>

\* Mutant: the round tripper of uploads forgotten.
UploadSetField == <<"upload">>

UploadSetAuthToken == <<"upload", "uploadTransport">>

\* Mutant: the metadata clients of the download service are left in place.
SetAuthTokenUnrestored ==
  SetBearerToken \o <<"pinning">> \o UploadSetAuthToken \o DownloadSetAuthToken

SetAuthToken ==
  SetBearerToken \o <<"pinning">> \o UploadSetAuthToken \o DownloadSetAuthToken
    \o <<"meta", "store">>

Updating == todo # <<>>

Update(steps, t, services) ==
  /\ ~Updating
  /\ todo' = steps /\ token' = t /\ scope' = services
  /\ calm' = [u \in Users |-> FALSE]
  /\ UNCHANGED <<clientVars, promise, pc, uses, client, header, obtained, begun>>

CallSetAuthToken == token < MaxToken /\ Update(SetAuthToken, token + 1, Services)
CallSetBearerToken ==
  token < MaxToken /\ Update(SetBearerToken, token + 1, OnGenerated)
CallSetHTTPClient == config < MaxConfig /\ Update(SetHTTPClient, token, OnGenerated)
CallSetBaseURL == config < MaxConfig /\ Update(SetBaseURL, token, OnGenerated)

\* The update's next step; with the last one it returns and has kept its promise.
Step(part) ==
  /\ Updating /\ Head(todo) = part
  /\ todo' = Tail(todo)
  /\ promise' = IF Len(todo) > 1 THEN promise
                ELSE [s \in Services |->
                        IF s \in scope
                          THEN [token  |-> token,
                                config |-> IF s \in OnGenerated THEN config ELSE 0]
                          ELSE promise[s]]
  /\ UNCHANGED <<token, scope, userVars>>

SetBearer ==
  /\ Step("bearer") /\ bearer' = token
  /\ UNCHANGED <<config, gen, service, field, transport>>

SetConfig ==
  /\ Step("config") /\ config' = config + 1
  /\ UNCHANGED <<bearer, gen, service, field, transport>>

NewInternalGen ==
  /\ Step("gen") /\ gen' = [token |-> bearer, config |-> config, own |-> FALSE]
  /\ UNCHANGED <<bearer, config, service, field, transport>>

\* A service is made anew, or the metadata client replaced, with internalGen.
Rewire ==
  /\ \E s \in OnGenerated : Step(s) /\ service' = [service EXCEPT ![s] = gen]
  /\ UNCHANGED <<bearer, config, gen, field, transport>>

SetField ==
  /\ \E s \in {"pinning", "upload", "download"} :
       Step(s) /\ field' = [field EXCEPT ![s] = token]
  /\ UNCHANGED <<bearer, config, gen, service, transport>>

\* rebuildBlockMetaClient: the base URL the download service was made with.
RebuildBlockMeta ==
  /\ \/ Step("ownMeta") /\ service' =
          [service EXCEPT !["meta"] = [token |-> token, config |-> 0, own |-> TRUE]]
     \/ Step("ownStore") /\ service' =
          [service EXCEPT !["store"] = [token |-> token, config |-> 0, own |-> TRUE]]
  /\ UNCHANGED <<bearer, config, gen, field, transport>>

-----------------------------------------------------------------------------
(* The AuthRoundTripper's lock. *)

\* Whose round tripper the request of a user goes through.
Through(u) ==
  IF uses[u] = "upload" THEN "upload"
  ELSE IF uses[u] = "download" \/ client[u].own THEN "download"
  ELSE "none"

Readers(s) == {u \in Users : pc[u] = "sent" /\ Through(u) = s}

LockOf(s) == IF s = "upload" THEN "uploadTransport" ELSE "downloadTransport"

\* Lock: the update waits for the requests in flight, and none gets past it.
Locking(s) == s # "none" /\ Updating /\ Head(todo) = LockOf(s)

SetTransport ==
  /\ \E s \in {"upload", "download"} :
       /\ Step(LockOf(s))
       /\ Readers(s) = {}
       /\ transport' = [transport EXCEPT ![s] = token]
  /\ UNCHANGED <<bearer, config, gen, service, field>>

-----------------------------------------------------------------------------
(* A user of the services. *)

\* An accessor of the Client (the download service's own for metadata).
GetService(u) ==
  /\ pc[u] = "idle"
  /\ pc' = [pc EXCEPT ![u] = "ready"]
  /\ \E s \in Used :
       /\ uses' = [uses EXCEPT ![u] = s]
       /\ client' = [client EXCEPT ![u] = IF s \in Recreated THEN service[s] ELSE Fresh]
       /\ obtained' = [obtained EXCEPT ![u] = IF s \in Recreated THEN promise[s] ELSE Nothing]
  /\ UNCHANGED <<clientVars, updateVars, header, begun, calm>>

\* The request is made: metadata queries take the client they find, the editors
\* and headers the token they find.
Request(u) ==
  /\ pc[u] = "ready"
  /\ pc' = [pc EXCEPT ![u] = "made"]
  /\ begun' = [begun EXCEPT ![u] = promise[uses[u]]]
  /\ calm' = [calm EXCEPT ![u] = ~Updating]
  /\ client' = [client EXCEPT ![u] = IF uses[u] \in {"meta", "store"} THEN service[uses[u]]
                                     ELSE @]
  /\ header' = [header EXCEPT ![u] =
       IF uses[u] \in OnGenerated
         THEN [token |-> client'[u].token, config |-> client'[u].config]
         ELSE [token |-> IF uses[u] = "download" THEN 0 ELSE field[uses[u]], config |-> 0]]
  /\ UNCHANGED <<clientVars, updateVars, uses, obtained>>

\* Mutant: a lock that lets readers pass a writer who waits.
RoundTripFree(u) ==
  /\ pc[u] = "made"
  /\ pc' = [pc EXCEPT ![u] = "sent"]
  /\ header' = [header EXCEPT ![u].token =
                  IF Through(u) # "none" /\ transport[Through(u)] # 0
                    THEN transport[Through(u)] ELSE @]
  /\ UNCHANGED <<clientVars, updateVars, uses, client, obtained, begun, calm>>

\* RoundTrip: the round tripper's token, unless it is empty, replaces the header.
RoundTrip(u) ==
  /\ pc[u] = "made" /\ ~Locking(Through(u))
  /\ pc' = [pc EXCEPT ![u] = "sent"]
  /\ header' = [header EXCEPT ![u].token =
                  IF Through(u) # "none" /\ transport[Through(u)] # 0
                    THEN transport[Through(u)] ELSE @]
  /\ UNCHANGED <<clientVars, updateVars, uses, client, obtained, begun, calm>>

\* The answer's headers are there, or the request has failed; the user keeps the
\* service for another request or drops it.
Answer(u) ==
  /\ pc[u] = "sent"
  /\ header' = [header EXCEPT ![u] = Nothing]
  /\ begun' = [begun EXCEPT ![u] = Nothing]
  /\ calm' = [calm EXCEPT ![u] = FALSE]
  /\ \/ /\ pc' = [pc EXCEPT ![u] = "ready"]
        /\ client' = [client EXCEPT ![u] = IF uses[u] \in Recreated THEN @ ELSE Fresh]
        /\ UNCHANGED <<uses, obtained>>
     \/ /\ pc' = [pc EXCEPT ![u] = "idle"]
        /\ client' = [client EXCEPT ![u] = Fresh]
        /\ uses' = [uses EXCEPT ![u] = "none"]
        /\ obtained' = [obtained EXCEPT ![u] = Nothing]
  /\ UNCHANGED <<clientVars, updateVars>>

Advance == \/ SetBearer \/ SetConfig \/ NewInternalGen \/ Rewire \/ SetField
           \/ RebuildBlockMeta \/ SetTransport

Next ==
  \/ CallSetAuthToken \/ CallSetBearerToken \/ CallSetHTTPClient \/ CallSetBaseURL
  \/ Advance
  \/ \E u \in Users : GetService(u) \/ Request(u) \/ RoundTrip(u) \/ Answer(u)

Spec == Init /\ [][Next]_vars

\* An update goes on, and a request in flight ends (the transport's
\* ResponseHeaderTimeout or the client's timeout).  Nobody has to ask anything.
FairSpec == Spec /\ WF_vars(Advance) /\ \A u \in Users : WF_vars(Answer(u))

-----------------------------------------------------------------------------
(* Properties *)

TypeOK ==
  /\ bearer \in Tokens /\ config \in Configs /\ gen \in Clients
  /\ service \in [OnGenerated -> Clients]
  /\ field \in [{"pinning", "upload", "download"} -> Tokens]
  /\ transport \in [{"upload", "download"} -> Tokens]
  /\ token \in Tokens /\ scope \subseteq Services
  /\ Len(todo) <= Len(IF scope = Services THEN SetAuthToken ELSE SetBearerToken)
  /\ promise \in [Services -> [token : Tokens, config : Configs]]
  /\ pc \in [Users -> {"idle", "ready", "made", "sent"}]
  /\ uses \in [Users -> Services \union {"none"}]
  /\ client \in [Users -> Clients]
  /\ header \in [Users -> [token : Tokens, config : Configs]]
  /\ obtained \in [Users -> [token : Tokens, config : Configs]]
  /\ begun \in [Users -> [token : Tokens, config : Configs]]
  /\ calm \in [Users -> BOOLEAN]

\* Once an update has returned, every request of a service got from the client
\* after it carries its token or a newer one; a service that is not recreated
\* even if it was got before.  The same goes for the base URL and HTTP client
\* of an update, as long as no other update is under way.
FreshAfterUpdate ==
  \A u \in Users : pc[u] = "sent" =>
    LET due == IF uses[u] \in Recreated THEN obtained[u] ELSE begun[u]
    IN  /\ header[u].token >= due.token
        /\ calm[u] => header[u].config >= due.config

\* As SetAuthToken's comment has it ("push a new JWT into already-constructed
\* services"): after a SetAuthToken that holds of every service the application
\* already has.
HeldServiceFresh ==
  \A u \in Users :
    pc[u] = "sent" /\ scope = Services => header[u].token >= begun[u].token

\* An update returns, however many requests the application keeps making:
\* it waits only for those that are in flight already.
UpdateReturns == Updating ~> ~Updating

=============================================================================
