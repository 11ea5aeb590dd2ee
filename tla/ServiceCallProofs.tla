--------------------------- MODULE ServiceCallProofs ---------------------------
(***************************************************************************)
(* Proofs about ServiceCall, for any number of attempts and of replays.     *)
(***************************************************************************)
EXTENDS ServiceCall, Ranks, TLAPS

-----------------------------------------------------------------------------
(* What the operations have in common. *)

Effects == {"list", "read", "set", "create", "append", "delete", "rotate", "convert"}

\* No operation takes a refusal for success, RemovePin's 404 excepted; what the
\* client decodes as a success is one, and where the operation reads it.
Regular(o) ==
  /\ o.effect \in Effects /\ o.once \in BOOLEAN
  /\ o.ok \subseteq {200, 201, 202, 204, 404}
  /\ o.decodes \ PinErrors \subseteq o.ok
  /\ o.reads = {} \/ o.decodes \ PinErrors \subseteq o.reads
  /\ o.effect = "rotate" => o.once /\ o.ok = {200}
  /\ o.effect = "convert" => 422 \in o.decodes

LEMMA ErrorsAreErrors ==
  /\ Errors \subseteq PinErrors /\ 422 \in Errors
  /\ \A s \in 200..204 : s \notin PinErrors
  /\ {409, 410} \subseteq PinErrors
  BY DEF Errors, PinErrors

LEMMA DNSRegular ==
  \A o \in {ListZones, GetZone, CreateZone, DeleteZone, GetZoneStatus, ValidateZone,
            ListRecords, CreateRecord, GetRecord, UpdateRecord, DeleteRecord,
            BulkCreateRecords, BulkDeleteRecords, PushCert, GetCert, UpdateTLSA} :
            Regular(o)
<1>1. Regular(ListZones) /\ Regular(GetZone) /\ Regular(CreateZone)
      /\ Regular(DeleteZone)
  BY ErrorsAreErrors
  DEF Regular, Effects, Op, Answered, Created, ListZones, GetZone, CreateZone,
      DeleteZone, ParseGetApiDnsZonesResponse, ParseGetApiDnsZonesIdResponse,
      ParsePostApiDnsZonesResponse, ParseDeleteApiDnsZonesIdResponse
<1>2. Regular(GetZoneStatus) /\ Regular(ValidateZone)
      /\ Regular(ListRecords) /\ Regular(CreateRecord)
  BY ErrorsAreErrors
  DEF Regular, Effects, Op, Answered, Created, GetZoneStatus, ValidateZone,
      ListRecords, CreateRecord, ParseGetApiDnsZonesIdStatusResponse,
      ParsePostApiDnsZonesIdValidateResponse, ParseGetApiDnsZonesIdRecordsResponse,
      ParsePostApiDnsZonesIdRecordsResponse
<1>3. Regular(GetRecord) /\ Regular(UpdateRecord) /\ Regular(DeleteRecord)
      /\ Regular(BulkCreateRecords)
  BY ErrorsAreErrors
  DEF Regular, Effects, Op, Answered, Created, GetRecord, UpdateRecord,
      DeleteRecord, BulkCreateRecords, ParseGetApiDnsZonesIdRecordsNameTypeResponse,
      ParsePutApiDnsZonesIdRecordsNameTypeResponse,
      ParseDeleteApiDnsZonesIdRecordsNameTypeResponse,
      ParsePostApiDnsZonesIdRecordsBulkResponse
<1>4. Regular(BulkDeleteRecords) /\ Regular(PushCert) /\ Regular(GetCert)
      /\ Regular(UpdateTLSA)
  BY ErrorsAreErrors
  DEF Regular, Effects, Op, Answered, Created, BulkDeleteRecords, PushCert, GetCert,
      UpdateTLSA, ParsePostApiDnsZonesIdRecordsBulkDeleteResponse,
      ParsePostInternalDnsCertResponse, ParseGetInternalDnsCertDomainResponse,
      ParsePostInternalDnsTlsaResponse
<1> QED BY <1>1, <1>2, <1>3, <1>4

LEMMA IPNSRegular ==
  \A o \in {ListKeys, ListKeysPage, GetKey, CreateKey, DeleteKey, Publish,
            Republish, ResolveName} : Regular(o)
<1>1. Regular(ListKeys) /\ Regular(ListKeysPage) /\ Regular(GetKey)
      /\ Regular(CreateKey)
  BY ErrorsAreErrors
  DEF Regular, Effects, Op, Answered, Created, ListKeys, ListKeysPage, GetKey,
      CreateKey, ParseGetApiIpnsKeysResponse, ParseGetApiIpnsKeysIdResponse,
      ParsePostApiIpnsKeysResponse
<1>2. Regular(DeleteKey) /\ Regular(Publish) /\ Regular(Republish)
      /\ Regular(ResolveName)
  BY ErrorsAreErrors
  DEF Regular, Effects, Op, Answered, Created, DeleteKey, Publish, Republish,
      ResolveName, ParseDeleteApiIpnsKeysIdResponse,
      ParsePostApiIpnsPublishResponse, ParsePostApiIpnsKeysIdRepublishResponse,
      ParseGetApiIpnsResolveNameResponse
<1> QED BY <1>1, <1>2

LEMMA WorkspacesRegular ==
  \A o \in {ListWorkspaces, GetWorkspace, CreateWorkspace, DeleteWorkspace, Access,
            AccessRotate, Attach, ResumeWorkspace, Suspend, ResolveWorkspace} :
            Regular(o)
<1>1. Regular(ListWorkspaces) /\ Regular(GetWorkspace)
      /\ Regular(CreateWorkspace) /\ Regular(DeleteWorkspace)
  BY ErrorsAreErrors
  DEF Regular, Effects, Op, Answered, Created, ListWorkspaces, GetWorkspace,
      CreateWorkspace, DeleteWorkspace, ParseGetApiWorkspacesResponse,
      ParseGetApiWorkspacesIdResponse, ParsePostApiWorkspacesResponse,
      ParseDeleteApiWorkspacesIdResponse
<1>2. Regular(Access) /\ Regular(AccessRotate) /\ Regular(Attach)
      /\ Regular(ResumeWorkspace)
  BY ErrorsAreErrors
  DEF Regular, Effects, Op, Answered, Created, Access, AccessRotate, Attach,
      ResumeWorkspace, ParseGetApiWorkspacesIdAccessResponse,
      ParsePostApiWorkspacesIdAttachResponse, ParsePostApiWorkspacesIdResumeResponse
<1>3. Regular(Suspend) /\ Regular(ResolveWorkspace)
  BY ErrorsAreErrors
  DEF Regular, Effects, Op, Answered, Created, Suspend, ResolveWorkspace,
      ParsePostApiWorkspacesIdSuspendResponse, ParseGetApiWorkspacesResolveResponse
<1> QED BY <1>1, <1>2, <1>3

LEMMA WebsitesRegular ==
  \A o \in {ListWebsites, GetWebsite, CreateWebsite, UpdateWebsite, DeleteWebsite,
            GetSSLStatus, ValidateDNS, UpdateSSLStatusInternal, GetGatewayWebsite,
            GetGatewayWebsiteStatus, ReconcileWebsiteChanges, GetConfig,
            ListDomains, BindDomain, UpdateDomain, UnbindDomain, VerifyDomain,
            GetDomainDNSRequirements, RepublishDANE, ConvertDomainToOnChain,
            ListPlatformDomains, CheckPlatformDomainAvailability} : Regular(o)
<1>1. Regular(ListWebsites) /\ Regular(GetWebsite) /\ Regular(CreateWebsite)
      /\ Regular(UpdateWebsite)
  BY ErrorsAreErrors
  DEF Regular, Effects, Op, Answered, Created, ListWebsites, GetWebsite,
      CreateWebsite, UpdateWebsite, ParseGetApiWebsitesResponse,
      ParseGetApiWebsitesIdResponse, ParsePostApiWebsitesResponse,
      ParsePutApiWebsitesIdResponse
<1>2. Regular(DeleteWebsite) /\ Regular(GetSSLStatus)
      /\ Regular(ValidateDNS) /\ Regular(UpdateSSLStatusInternal)
  BY ErrorsAreErrors
  DEF Regular, Effects, Op, Answered, Created, DeleteWebsite, GetSSLStatus,
      ValidateDNS, UpdateSSLStatusInternal, ParseDeleteApiWebsitesIdResponse,
      ParseGetApiWebsitesDomainSslStatusResponse,
      ParsePostApiWebsitesIdValidateResponse,
      ParsePostInternalWebsitesDomainSslStatusResponse
<1>3. Regular(GetGatewayWebsite) /\ Regular(GetGatewayWebsiteStatus)
      /\ Regular(ReconcileWebsiteChanges) /\ Regular(GetConfig)
  BY ErrorsAreErrors
  DEF Regular, Effects, Op, Answered, Created, GetGatewayWebsite,
      GetGatewayWebsiteStatus, ReconcileWebsiteChanges, GetConfig,
      ParseGetInternalWebsitesDomainResponse,
      ParseGetInternalWebsitesDomainStatusResponse,
      ParseGetInternalWebsitesChangesResponse, ParseGetApiWebsitesConfigResponse
<1>4. Regular(ListDomains) /\ Regular(BindDomain) /\ Regular(UpdateDomain)
      /\ Regular(UnbindDomain)
  BY ErrorsAreErrors
  DEF Regular, Effects, Op, Answered, Created, ListDomains, BindDomain,
      UpdateDomain, UnbindDomain, ParseGetApiWebsitesIdDomainsResponse,
      ParsePostApiWebsitesIdDomainsResponse,
      ParsePatchApiWebsitesIdDomainsDomainIdResponse,
      ParseDeleteApiWebsitesIdDomainsDomainIdResponse
<1>5. Regular(VerifyDomain) /\ Regular(GetDomainDNSRequirements)
      /\ Regular(RepublishDANE) /\ Regular(ConvertDomainToOnChain)
  BY ErrorsAreErrors
  DEF Regular, Effects, Op, Answered, Created, VerifyDomain,
      GetDomainDNSRequirements, RepublishDANE, ConvertDomainToOnChain,
      ParsePostApiWebsitesIdDomainsDomainIdVerifyResponse,
      ParseGetApiWebsitesIdDomainsDomainIdDnsRequirementsResponse,
      ParsePostApiWebsitesIdDomainsDomainIdDaneRepublishResponse,
      ParsePostApiWebsitesIdDomainsDomainIdOnchainResponse
<1>6. Regular(ListPlatformDomains) /\ Regular(CheckPlatformDomainAvailability)
  BY ErrorsAreErrors
  DEF Regular, Effects, Op, Answered, Created, ListPlatformDomains,
      CheckPlatformDomainAvailability, ParseGetApiWebsitesPlatformDomainsResponse,
      ParseGetApiWebsitesPlatformDomainsAvailabilityResponse
<1> QED BY <1>1, <1>2, <1>3, <1>4, <1>5, <1>6

LEMMA OtherRegular ==
  \A o \in {ListPins, AddPin, GetPin, RemovePin, Ping, ResolveDAG} : Regular(o)
<1>1. Regular(ListPins) /\ Regular(AddPin) /\ Regular(GetPin) /\ Regular(RemovePin)
  BY ErrorsAreErrors
  DEF Regular, Effects, Op, Answered, Created, ListPins, AddPin, GetPin, RemovePin,
      ParseGetPinsResponse, ParseAddPinResponse, ParseGetPinByRequestIdResponse,
      ParseDeletePinByRequestIdResponse
<1>2. Regular(Ping) /\ Regular(ResolveDAG)
  BY ErrorsAreErrors
  DEF Regular, Effects, Op, Answered, Created, Ping, ResolveDAG,
      ParseGetInternalPingResponse, ParseGetApiDagCidResponse
<1> QED BY <1>1, <1>2

LEMMA OperationsRegular == \A o \in Operations : Regular(o)
  BY DNSRegular, IPNSRegular, WorkspacesRegular, WebsitesRegular, OtherRegular
  DEF Operations

-----------------------------------------------------------------------------
(* The inductive invariant. *)

\* The request the call waits for, if it can change the item.
Sent == IF flying /\ path = "main" THEN 1 ELSE 0

\* The requests the transport may have added.
Extra == IF op.method = "GET" THEN replays ELSE 0

Items == [exists : BOOLEAN, onchain : BOOLEAN, cred : 0..(Attempts + Replays)]

\* Every request that was carried out, is adrift or is waited for was an attempt
\* or a replay, and a loop that goes on has an attempt left.
Counted ==
  /\ applied + stray + Sent <= tries + Extra
  /\ tries <= Budget
  /\ path = "main" /\ phase \in {"call", "ready", "backoff"} => tries < Budget
  /\ path = "list" /\ phase \in {"call", "ready", "backoff"} => inner < Attempts
  /\ path = "main" => inner = 0

\* The call waits for one thing at a time.
Waiting ==
  /\ flying => phase = "wait" /\ answer = None
  /\ answer # None => phase = "wait"
  /\ outcome = "none" <=> phase # "done"
  /\ path = "list" => op.effect = "convert"
  /\ "main" \in refused => phase = "done"

\* An answer that will be taken for success is one, and so is what the call
\* has already taken for one.
Honest ==
  /\ path = "list" => met
  /\ path = "main" /\ (answer.body = "onchain" \/ answer.status \in op.ok) => met
  /\ outcome = "ok" => met

\* Without replays a rotation is carried out once, and its credential is the
\* one in the answer and in the result.
Valid ==
  op.effect = "rotate" /\ replays = 0 =>
    /\ answer.status \in op.ok => applied > 0 /\ answer.cred = item.cred
    /\ outcome = "ok" => applied > 0 /\ granted = item.cred

\* A conversion is never undone, so a refusal that does not say so was given
\* before there was one.
Converted ==
  op.effect = "convert" =>
    /\ applied > 0 => item.onchain
    /\ path = "main" /\ answer.status = 422 /\ answer.body \notin {"onchain", "garbled"}
         => applied = 0 \/ late

IInv == TypeOK /\ Counted /\ Waiting /\ Honest /\ Valid /\ Converted

LEMMA OperationFacts == TypeOK => Regular(op) /\ Budget \in Nat /\ Budget > 0
                                  /\ Budget <= Attempts
  BY OperationsRegular, AttemptsAssumption DEF TypeOK, Budget, Regular

LEMMA InitIInv == Init => IInv
<1> SUFFICES ASSUME Init PROVE IInv
  OBVIOUS
<1> USE AttemptsAssumption, ReplaysAssumption
<1>1. answer = None /\ None \in Answers
  BY DEF Init, Answers, None, Statuses, Bodies
<1>2. TypeOK
  <2>1. item \in Items /\ refused \subseteq {"main", "list"} /\ op \in Operations
    BY DEF Init, Items
  <2>2. phase = "call" /\ path = "main" /\ outcome = "none"
    BY DEF Init
  <2>3. tries \in 0..Attempts /\ inner \in 0..Attempts /\ replays \in 0..Replays
        /\ stray \in 0..(Attempts + Replays) /\ applied \in 0..(Attempts + Replays)
        /\ granted \in 0..(Attempts + Replays)
    BY DEF Init
  <2>4. cancelled \in BOOLEAN /\ flying \in BOOLEAN /\ met \in BOOLEAN /\ late \in BOOLEAN
    BY DEF Init
  <2> QED BY <1>1, <2>1, <2>2, <2>3, <2>4 DEF TypeOK, Items
<1>3. Counted
  BY <1>2, OperationFacts DEF Init, Counted, Sent, Extra, TypeOK
<1>4. answer.status = 0 /\ answer.body = "none"
  BY <1>1 DEF None
<1>5. Waiting /\ Honest /\ Valid /\ Converted
  BY <1>1, <1>2, <1>4, OperationFacts
  DEF Init, Waiting, Honest, Valid, Converted, Regular
<1> QED BY <1>2, <1>3, <1>5 DEF IInv

-----------------------------------------------------------------------------
(* How an attempt's end turns the loops. *)

\* What a turn leaves of the call: another attempt where one is left, or a result.
Turned ==
  /\ phase' \in {"call", "ready", "backoff", "done"}
  /\ path' \in {"main", "list"}
  /\ tries' = tries /\ inner' \in 0..Attempts
  /\ outcome' \in {"none", "ok", "refused", "failed", "cancelled", "early"}
  /\ outcome' = "none" <=> phase' # "done"
  /\ path' = "main" /\ phase' # "done" => tries < Budget
  /\ path' = "list" /\ phase' # "done" => inner' < Attempts
  /\ path' = "main" => inner' = 0

LEMMA FailMainTurns ==
  ASSUME TypeOK, FailMain, outcome = "none"
  PROVE  /\ Turned /\ path' = "main" /\ outcome' \in {"none", "failed"}
         /\ outcome' = "failed" => tries >= Budget
<1>1. tries \in Nat /\ Budget \in Nat /\ 0 \in 0..Attempts
  BY OperationFacts, AttemptsAssumption DEF TypeOK
<1> QED BY <1>1 DEF FailMain, Turned

LEMMA ReturnTurns ==
  ASSUME TypeOK, Counted, NEW o \in {"ok", "refused", "cancelled", "early"}, Return(o)
  PROVE  Turned /\ UNCHANGED path /\ outcome' = o
  BY DEF Return, Turned, TypeOK, Counted, loopVars

LEMMA FailTurns ==
  ASSUME TypeOK, outcome = "none", Fail
  PROVE  /\ Turned /\ outcome' \in {"none", "failed"}
         /\ outcome' = "failed" => tries >= Budget
         /\ path' = "list" => path = "list"
<1>1. CASE path = "list" /\ inner < Attempts
  BY <1>1 DEF Fail, Turned, TypeOK, loopVars
<1>2. CASE FailMain
  BY <1>2, FailMainTurns
<1> QED BY <1>1, <1>2 DEF Fail

\* The closure's verdict: success and the second loop only on an honest answer,
\* a refusal only of the codes that are final.
LEMMA JudgeTurns ==
  ASSUME IInv, phase = "wait", answer # None, Judge
  PROVE  /\ Turned
         /\ path' = "list" => met /\ op.effect = "convert"
         /\ outcome' = "ok" => met /\ (path = "list" \/ answer.status \in op.ok)
         /\ outcome' = "failed" => tries >= Budget
         /\ outcome' = "refused" =>
              /\ path = "main" /\ answer.status \in Final /\ ~Undecodable(op, answer)
              /\ op.effect = "convert" => answer.body # "onchain"
         /\ path = "main" /\ RefusesNow => phase' = "done"
<1>1. TypeOK /\ outcome = "none" /\ Regular(op) /\ Counted /\ Honest
      /\ (path = "list" => op.effect = "convert") /\ Attempts \in Nat /\ Attempts > 0
  BY OperationFacts, AttemptsAssumption DEF IInv, Waiting
<1>2. answer.status \in Statuses
  BY <1>1 DEF TypeOK, Answers
<1>3. IsUnrecoverable(answer.status) <=> answer.status \in Final
  BY <1>2 DEF IsUnrecoverable, Final, Statuses
<1>4. path = "main" => Asked = op
  BY DEF Asked
<1>5. CASE Undecodable(Asked, answer) /\ Fail
  BY <1>1, <1>4, <1>5, FailTurns DEF RefusesNow, Honest
<1>6. CASE /\ path = "main" /\ op.effect = "convert" /\ answer.body = "onchain"
           /\ phase' = "call" /\ path' = "list" /\ UNCHANGED <<outcome, tries, inner>>
  <2>1. met /\ inner = 0 /\ inner \in 0..Attempts
    BY <1>1, <1>6 DEF Honest, Counted, TypeOK
  <2> QED BY <1>1, <1>6, <2>1 DEF Turned, RefusesNow
<1>7. CASE Success(Asked, answer) /\ path = "list" /\ Listed
  <2>1. met
    BY <1>1, <1>7 DEF Honest
  <2>2. CASE Return("ok")
    BY <1>1, <1>7, <2>1, <2>2, ReturnTurns
  <2>3. CASE FailMain
    BY <1>1, <1>7, <2>3, FailMainTurns
  <2> QED BY <1>7, <2>2, <2>3 DEF Listed
<1>8. CASE Success(Asked, answer) /\ path = "main" /\ Return("ok")
  <2>1. answer.status \in op.ok /\ met
    BY <1>1, <1>4, <1>8 DEF Success, Honest
  <2>2. Turned /\ path' = "main" /\ outcome' = "ok"
    BY <1>1, <1>8, ReturnTurns
  <2>3. phase' = "done"
    BY <1>8 DEF Return
  <2> QED BY <1>8, <2>1, <2>2, <2>3
<1>9. CASE /\ ~Undecodable(Asked, answer) /\ Stop /\ IsUnrecoverable(answer.status)
           /\ ~(path = "main" /\ op.effect = "convert" /\ answer.body = "onchain")
  <2>1. CASE path = "list" /\ FailMain
    BY <1>1, <2>1, FailMainTurns
  <2>2. CASE path = "main" /\ Return("refused")
    <3>1. Turned /\ path' = "main" /\ outcome' = "refused"
      BY <1>1, <2>2, ReturnTurns
    <3>2. phase' = "done"
      BY <2>2 DEF Return
    <3> QED BY <1>3, <1>4, <1>9, <2>2, <3>1, <3>2
  <2>3. path \in {"main", "list"}
    BY <1>1 DEF TypeOK
  <2> QED BY <1>9, <2>1, <2>2, <2>3 DEF Stop
<1>10. CASE Fail /\ ~(answer.status \notin Asked.ok /\ IsUnrecoverable(answer.status))
  <2>1. ~(path = "main" /\ RefusesNow)
    BY <1>3, <1>10 DEF RefusesNow
  <2> QED BY <1>1, <1>10, <2>1, FailTurns DEF Honest
<1>11. path \in {"main", "list"}
  BY <1>1 DEF TypeOK
<1> QED BY <1>5, <1>6, <1>7, <1>8, <1>9, <1>10, <1>11 DEF Judge

\* A turn keeps the invariant: nothing is waited for, the portal is as it was.
LEMMA TurnKeeps ==
  ASSUME IInv, outcome = "none", Turned,
         UNCHANGED <<op, replays, item, applied, met, late>>, cancelled' \in BOOLEAN,
         flying' = FALSE, answer' = None, stray' = stray + Sent,
         granted' \in 0..(Attempts + Replays), refused' \subseteq {"main", "list"},
         "main" \in refused' => phase' = "done",
         path' = "list" => met /\ op.effect = "convert",
         outcome' = "ok" => met,
         outcome' = "ok" /\ op.effect = "rotate" /\ replays = 0
           => applied > 0 /\ granted' = item.cred
  PROVE  IInv'
<1> USE AttemptsAssumption, ReplaysAssumption
<1>1. TypeOK /\ Counted /\ Waiting /\ Converted /\ Regular(op) /\ Budget \in Nat
      /\ Budget <= Attempts
  BY OperationFacts DEF IInv
<1>2. Budget' = Budget /\ Extra' = Extra /\ Sent' = 0
  BY DEF Budget, Extra, Sent
<1>3. tries \in Nat /\ stray \in Nat /\ applied \in Nat /\ replays \in 0..Replays
      /\ Sent \in {0, 1} /\ Extra \in 0..Replays
  BY <1>1 DEF TypeOK, Sent, Extra
<1>4. None \in Answers /\ None.status = 0 /\ None.body = "none"
  BY DEF None, Answers, Statuses, Bodies
<1>5. Counted'
  <2>1. applied' + stray' + Sent' <= tries' + Extra'
    BY <1>1, <1>2, <1>3 DEF Counted, Turned
  <2>2. tries' <= Budget'
    BY <1>1, <1>2 DEF Counted, Turned
  <2> QED BY <1>2, <2>1, <2>2 DEF Counted, Turned
<1>6. TypeOK'
  <2>1. stray' \in 0..(Attempts + Replays)
    BY <1>1, <1>2, <1>3 DEF Counted
  <2>2. op' \in Operations /\ item' \in Items /\ answer' \in Answers
        /\ replays' \in 0..Replays /\ applied' \in 0..(Attempts + Replays)
    BY <1>1, <1>4 DEF TypeOK, Items
  <2>3. flying' \in BOOLEAN /\ met' \in BOOLEAN /\ late' \in BOOLEAN
    BY <1>1 DEF TypeOK
  <2>4. tries' \in 0..Attempts
    BY <1>1 DEF TypeOK, Turned
  <2> QED BY <2>1, <2>2, <2>3, <2>4 DEF TypeOK, Items, Turned
<1>7. Waiting'
  BY DEF Waiting, Turned
<1>8. Honest'
  BY <1>1, <1>4 DEF Honest, Regular
<1>9. Valid'
  BY <1>1, <1>4 DEF Valid, Regular
<1>10. Converted'
  BY <1>1, <1>4 DEF Converted
<1> QED BY <1>5, <1>6, <1>7, <1>8, <1>9, <1>10 DEF IInv

-----------------------------------------------------------------------------
(* The steps of the call. *)

LEMMA BeginWakeKeeps == ASSUME IInv, Begin \/ Wake PROVE IInv'
<1>1. TypeOK /\ Counted /\ Waiting /\ Honest
  BY DEF IInv
<1>2. phase \in {"call", "backoff"} /\ outcome = "none" /\ flying = FALSE /\ answer = None
  BY <1>1 DEF Begin, Wake, Waiting, TypeOK
<1>3. /\ UNCHANGED <<op, replays, item, applied, met, late, cancelled, flying, answer,
                     stray, granted, refused>>
      /\ Sent = 0
  BY <1>2 DEF Begin, Wake, netVars, portalVars, Sent
<1>4. /\ Turned /\ outcome' # "ok"
      /\ path' = "list" => path = "list"
  <2>1. CASE Return("early") \/ Return("cancelled")
    BY <1>1, <2>1, ReturnTurns
  <2>2. CASE FailMain
    BY <1>1, <1>2, <2>2, FailMainTurns
  <2>3. CASE phase' = "ready" /\ UNCHANGED <<outcome, loopVars>>
    BY <1>1, <1>2, <2>3 DEF Turned, Counted, TypeOK, loopVars
  <2> QED BY <2>1, <2>2, <2>3 DEF Begin, Wake
<1>5. stray' = stray + Sent /\ "main" \notin refused
  BY <1>1, <1>2, <1>3 DEF TypeOK, Waiting
<1> QED
  <2>1. cancelled' \in BOOLEAN /\ granted' \in 0..(Attempts + Replays)
        /\ refused' \subseteq {"main", "list"}
    BY <1>1, <1>3 DEF TypeOK
  <2>2. path' = "list" => met /\ op.effect = "convert"
    BY <1>1, <1>4 DEF Waiting, Honest
  <2> QED BY <1>2, <1>3, <1>4, <1>5, <2>1, <2>2, TurnKeeps

LEMMA BreakKeeps == ASSUME IInv, Break PROVE IInv'
<1>1. TypeOK /\ Counted /\ Waiting /\ Honest
  BY DEF IInv
<1>2. phase = "wait" /\ outcome = "none" /\ Fail
  BY <1>1 DEF Break, Waiting
<1>3. Turned /\ outcome' # "ok" /\ (path' = "list" => path = "list")
  BY <1>1, <1>2, FailTurns
<1>4. /\ flying' = FALSE /\ answer' = None /\ stray' = stray + Sent
      /\ UNCHANGED <<op, cancelled, replays, item, applied, met, late, refused, granted>>
  BY DEF Break, Sent, portalVars
<1>5. "main" \notin refused
  BY <1>1, <1>2 DEF Waiting
<1> QED
  <2>1. cancelled' \in BOOLEAN /\ granted' \in 0..(Attempts + Replays)
        /\ refused' \subseteq {"main", "list"}
    BY <1>1, <1>4 DEF TypeOK
  <2>2. path' = "list" => met /\ op.effect = "convert"
    BY <1>1, <1>3 DEF Waiting, Honest
  <2> QED BY <1>2, <1>3, <1>4, <1>5, <2>1, <2>2, TurnKeeps

LEMMA ReceiveKeeps == ASSUME IInv, Receive PROVE IInv'
<1>1. TypeOK /\ Waiting /\ Honest /\ Valid
  BY DEF IInv
<1>2. phase = "wait" /\ answer # None /\ outcome = "none" /\ Judge
  BY <1>1 DEF Receive, Waiting
<1>3. /\ Turned
      /\ path' = "list" => met /\ op.effect = "convert"
      /\ outcome' = "ok" => met /\ (path = "list" \/ answer.status \in op.ok)
      /\ path = "main" /\ RefusesNow => phase' = "done"
  BY <1>2, JudgeTurns
<1>4. flying = FALSE /\ stray \in Nat /\ Sent = 0
  BY <1>1, <1>2 DEF Waiting, TypeOK, Sent
<1>5. /\ flying' = FALSE /\ answer' = None /\ stray' = stray + Sent
      /\ UNCHANGED <<op, cancelled, replays, item, applied, met, late>>
  BY <1>4 DEF Receive, portalVars
<1>6. refused' \subseteq {"main", "list"} /\ ("main" \in refused' => phase' = "done")
  <2>1. path \in {"main", "list"} /\ refused \subseteq {"main", "list"} /\ "main" \notin refused
    BY <1>1, <1>2 DEF TypeOK, Waiting
  <2>2. refused' = IF RefusesNow THEN refused \union {path} ELSE refused
    BY DEF Receive
  <2> QED BY <1>3, <2>1, <2>2
<1>7. granted' \in 0..(Attempts + Replays)
  BY <1>1 DEF Receive, TypeOK, Answers
<1>8. outcome' = "ok" /\ op.effect = "rotate" /\ replays = 0
        => applied > 0 /\ granted' = item.cred
  <2>1. op.effect = "rotate" => path # "list"
    BY <1>1 DEF Waiting
  <2>2. outcome' = "ok" => granted' = answer.cred
    BY DEF Receive
  <2> QED BY <1>1, <1>3, <2>1, <2>2 DEF Valid
<1>9. cancelled' \in BOOLEAN
  BY <1>1, <1>5 DEF TypeOK
<1> QED BY <1>2, <1>3, <1>5, <1>6, <1>7, <1>8, <1>9, TurnKeeps

LEMMA AttemptKeeps == ASSUME IInv, Attempt PROVE IInv'
<1> USE AttemptsAssumption, ReplaysAssumption
<1>1. TypeOK /\ Counted /\ Waiting /\ Honest /\ Valid /\ Converted /\ Regular(op)
      /\ Budget \in Nat /\ Budget <= Attempts
  BY OperationFacts DEF IInv
<1>2. /\ phase = "ready" /\ phase' = "wait" /\ answer' = None
      /\ UNCHANGED <<op, path, cancelled, stray, replays, outcome, item, applied, met, late,
                     refused, granted>>
  BY DEF Attempt, portalVars
<1>3. None \in Answers /\ None.status = 0 /\ None.body = "none"
  BY DEF None, Answers, Statuses, Bodies
<1>4. flying = FALSE /\ Sent = 0 /\ outcome = "none" /\ "main" \notin refused
  BY <1>1, <1>2 DEF Waiting, TypeOK, Sent
<1>5. Budget' = Budget /\ Extra' = Extra /\ Sent' \in {0, 1} /\ (path = "list" => Sent' = 0)
  BY <1>2 DEF Budget, Extra, Sent
<1>6. tries \in Nat /\ inner \in Nat /\ stray \in Nat /\ applied \in Nat /\ Extra \in Nat
      /\ path \in {"main", "list"}
  BY <1>1 DEF TypeOK, Extra
<1>7. \/ path = "list" /\ inner' = inner + 1 /\ tries' = tries /\ inner < Attempts
      \/ path = "main" /\ inner' = inner /\ tries' = tries + 1 /\ tries < Budget
  BY <1>1, <1>2, <1>6 DEF Attempt, Counted
<1>8. Counted'
  <2>1. applied' + stray' + Sent' <= tries' + Extra'
    BY <1>1, <1>2, <1>4, <1>5, <1>6, <1>7 DEF Counted
  <2>2. tries' <= Budget'
    BY <1>1, <1>5, <1>6, <1>7 DEF Counted
  <2> QED BY <1>1, <1>2, <1>7, <2>1, <2>2 DEF Counted
<1>9. TypeOK'
  <2>1. tries' \in 0..Attempts /\ inner' \in 0..Attempts
    BY <1>1, <1>6, <1>7 DEF TypeOK
  <2>2. flying' \in BOOLEAN
    BY <1>1 DEF Attempt, TypeOK
  <2> QED BY <1>1, <1>2, <1>3, <2>1, <2>2 DEF TypeOK
<1>10. Waiting'
  BY <1>1, <1>2, <1>4 DEF Waiting
<1>11. Honest' /\ Valid' /\ Converted'
  BY <1>1, <1>2, <1>3, <1>4 DEF Honest, Valid, Converted, Regular
<1> QED BY <1>8, <1>9, <1>10, <1>11 DEF IInv

LEMMA ReplayKeeps == ASSUME IInv, Replay PROVE IInv'
<1> USE AttemptsAssumption, ReplaysAssumption
<1>1. TypeOK /\ Counted /\ Waiting /\ Honest /\ Valid /\ Converted /\ Regular(op)
      /\ Budget \in Nat /\ Budget <= Attempts
  BY OperationFacts DEF IInv
<1>2. /\ phase = "wait" /\ answer' = None /\ flying' = TRUE /\ replays < Replays
      /\ replays' = replays + 1 /\ stray' = stray + Sent
      /\ UNCHANGED <<op, phase, path, tries, inner, cancelled, outcome, item, applied, met,
                     late, refused, granted>>
  BY DEF Replay, loopVars, portalVars, Sent
<1>3. None \in Answers /\ None.status = 0 /\ None.body = "none"
  BY DEF None, Answers, Statuses, Bodies
<1>4. tries \in Nat /\ stray \in Nat /\ applied \in Nat /\ replays \in Nat
      /\ Sent \in {0, 1} /\ path \in {"main", "list"}
  BY <1>1 DEF TypeOK, Sent
<1>5. path = "main" => Sent' = 1 /\ Extra = replays /\ Extra' = replays + 1
  BY <1>2 DEF Sent, Extra, Replay, Asked
<1>6. path = "list" => Sent = 0 /\ Sent' = 0
  BY <1>2 DEF Sent
<1>7. Extra \in Nat /\ Extra' >= Extra /\ Extra' \in 0..Replays /\ Budget' = Budget
  BY <1>1, <1>2, <1>4 DEF Extra, Budget
<1>8. applied' + stray' + Sent' <= tries' + Extra'
  BY <1>1, <1>2, <1>4, <1>5, <1>6, <1>7 DEF Counted
<1>9. Counted'
  BY <1>1, <1>2, <1>7, <1>8 DEF Counted
<1>10. TypeOK'
  <2>1. Sent' \in {0, 1}
    BY DEF Sent
  <2>2. stray' \in 0..(Attempts + Replays)
    BY <1>1, <1>2, <1>4, <1>7, <1>8, <2>1 DEF Counted
  <2>3. replays' \in 0..Replays
    BY <1>2, <1>4
  <2> QED BY <1>1, <1>2, <1>3, <2>2, <2>3 DEF TypeOK
<1>11. Waiting'
  BY <1>1, <1>2 DEF Waiting
<1>12. Honest' /\ Valid' /\ Converted'
  BY <1>1, <1>2, <1>3, <1>4 DEF Honest, Valid, Converted, Regular
<1> QED BY <1>9, <1>10, <1>11, <1>12 DEF IInv

-----------------------------------------------------------------------------
(* The steps of the portal and the network. *)

\* What the portal's answer a to a request for o says of the item.
CarriedOut(o, a) ==
  /\ item' \in Items
  /\ met' \in BOOLEAN
  /\ met => met'
  /\ applied' = applied \/ applied' = applied + 1
  /\ o.effect = "list" => item' = item /\ applied' = applied
  /\ a.body = "onchain" \/ a.status \in o.ok => met'
  /\ o.effect = "rotate" /\ a.status \in o.ok
       => applied' = applied + 1 /\ a.cred = item'.cred
  /\ o.effect = "convert" =>
       /\ item.onchain => item'.onchain
       /\ applied' # applied => item'.onchain
       /\ a.status = 422 /\ a.body \notin {"onchain", "garbled"}
            => ~item.onchain /\ applied' = applied

LEMMA Carried ==
  ASSUME TypeOK, NEW o, Regular(o), NEW a \in Answers, Perform(o, a) \/ Refuse(o, a),
         o.effect = "list" \/ applied < Attempts + Replays
  PROVE  CarriedOut(o, a)
<1> USE AttemptsAssumption, ReplaysAssumption
<1>1. item \in Items /\ applied \in 0..(Attempts + Replays) /\ met \in BOOLEAN
  BY DEF TypeOK, Items
<1>2. a.status \in Statuses /\ a.body \in Bodies
  BY DEF Answers
<1>3. CASE Perform(o, a)
  <2>1. item' = Effected(o) /\ met' = TRUE /\ a.cred = item'.cred
        /\ applied' = applied + (IF Changes(o) THEN 1 ELSE 0)
    BY <1>3 DEF Perform
  <2>2. item' \in Items
    <3>1. CASE o.effect = "rotate"
      <4>1. applied + 1 \in 0..(Attempts + Replays)
        BY <1>1, <3>1
      <4> QED BY <1>1, <2>1, <3>1, <4>1 DEF Effected, Items
    <3>2. CASE o.effect # "rotate"
      BY <1>1, <2>1, <3>2 DEF Effected, Items
    <3> QED BY <3>1, <3>2
  <2>3. a.status # 422
    <3>1. o.ok \subseteq {200, 201, 202, 204, 404} /\ 422 \in PinErrors
      BY DEF Regular, PinErrors
    <3> QED BY <1>3, <3>1 DEF Perform
  <2>4. Changes(o) <=> o.effect \notin {"list", "read"}
    BY DEF Changes
  <2>5. o.effect = "list" => item' = item
    BY <2>1 DEF Effected
  <2>6. o.effect = "convert" => item'.onchain
    BY <1>1, <2>1 DEF Effected, Items
  <2> QED BY <1>1, <2>1, <2>2, <2>3, <2>4, <2>5, <2>6 DEF CarriedOut
<1>4. CASE Refuse(o, a)
  <2>1. UNCHANGED <<item, applied>>
    BY <1>4 DEF Refuse
  <2>2. met' \in BOOLEAN /\ (met => met') /\ (a.body = "onchain" => met')
    BY <1>1, <1>4 DEF Refuse
  <2>3. a.status \in o.ok => a.status = 404 /\ Misfit(o) = 404
    BY <1>4 DEF Refuse, Regular, Misfit
  <2>4. a.status \in o.ok => met'
    <3>1. Misfit(o) = 404 => ~item.exists
      BY DEF Misfit
    <3> QED BY <1>4, <2>3, <3>1 DEF Refuse
  <2>5. o.effect = "rotate" => a.status \notin o.ok
    BY <2>3 DEF Regular
  <2>6. o.effect = "convert" /\ a.status = 422 /\ a.body \notin {"onchain", "garbled"}
          => ~item.onchain
    BY <1>4 DEF Refuse
  <2> QED BY <1>1, <2>1, <2>2, <2>4, <2>5, <2>6 DEF CarriedOut
<1> QED BY <1>3, <1>4

LEMMA Within ==
  ASSUME NEW a \in Nat, NEW b \in Nat, NEW c \in Nat, NEW t \in Nat, NEW e \in 0..Replays,
         a + b + c <= t + e, t <= Attempts
  PROVE  a \in 0..(Attempts + Replays) /\ b \in 0..(Attempts + Replays)
  BY AttemptsAssumption, ReplaysAssumption

LEMMA ListRegular == Regular(ListDomains) /\ ListDomains.effect = "list"
  BY WebsitesRegular DEF ListDomains, Op

LEMMA ServeKeeps == ASSUME IInv, Serve PROVE IInv'
<1> USE AttemptsAssumption, ReplaysAssumption
<1>1. TypeOK /\ Counted /\ Waiting /\ Honest /\ Valid /\ Converted /\ Regular(op)
      /\ Budget \in Nat /\ Budget <= Attempts
  BY OperationFacts DEF IInv
<1>2. /\ flying /\ flying' = FALSE
      /\ UNCHANGED <<op, phase, path, tries, inner, cancelled, stray, replays, outcome, late,
                     refused, granted>>
  BY DEF Serve, loopVars
<1>3. phase = "wait" /\ outcome = "none" /\ "main" \notin refused /\ path \in {"main", "list"}
  BY <1>1, <1>2 DEF Waiting, TypeOK
<1>4. tries \in Nat /\ stray \in Nat /\ applied \in Nat /\ Extra \in 0..Replays
      /\ Extra' = Extra /\ Budget' = Budget /\ Sent' = 0
  BY <1>1, <1>2 DEF TypeOK, Extra, Budget, Sent
<1>5. PICK a \in Answers : (Perform(Asked, a) \/ Refuse(Asked, a)) /\ answer' = a
  BY DEF Serve
<1>6. path = "main" => Sent = 1 /\ applied < Attempts + Replays /\ Asked = op
  BY <1>1, <1>2, <1>4 DEF Sent, Counted, Asked
<1>7. path = "list" => Sent = 0 /\ Asked.effect = "list" /\ Regular(Asked)
  BY ListRegular DEF Sent, Asked
<1>8. Regular(Asked) /\ (Asked.effect = "list" \/ applied < Attempts + Replays)
  BY <1>1, <1>3, <1>6, <1>7
<1>9. CarriedOut(Asked, a)
  BY <1>1, <1>5, <1>8, Carried
<1>10. /\ item' \in Items /\ met' \in BOOLEAN /\ (met => met')
       /\ applied' = applied \/ applied' = applied + 1
       /\ path = "list" => item' = item /\ applied' = applied
  <2>1. item' \in Items /\ met' \in BOOLEAN /\ (met => met')
    BY <1>9 DEF CarriedOut
  <2>2. applied' = applied \/ applied' = applied + 1
    BY <1>9 DEF CarriedOut
  <2>3. path = "list" => item' = item /\ applied' = applied
    BY <1>7, <1>9 DEF CarriedOut
  <2> QED BY <2>1, <2>2, <2>3
<1>11. applied' + stray' + Sent' <= tries' + Extra'
  <2>1. applied + stray + Sent <= tries + Extra
    BY <1>1 DEF Counted
  <2>2. applied' <= applied + Sent
    BY <1>3, <1>4, <1>6, <1>7, <1>10
  <2> QED BY <1>2, <1>4, <1>6, <1>7, <1>3, <1>10, <2>1, <2>2
<1>12. Counted'
  BY <1>1, <1>2, <1>4, <1>11 DEF Counted
<1>13. TypeOK'
  <2>1. tries <= Attempts /\ tries' = tries /\ stray' = stray /\ applied' \in Nat
    BY <1>1, <1>2, <1>4, <1>10 DEF Counted
  <2>2. applied' \in 0..(Attempts + Replays)
    BY <1>4, <1>11, <2>1, Within
  <2> QED BY <1>1, <1>2, <1>5, <1>10, <2>2 DEF TypeOK, Items
<1>14. Waiting'
  BY <1>1, <1>2, <1>3 DEF Waiting
<1>15. Honest'
  BY <1>1, <1>2, <1>3, <1>5, <1>6, <1>9, <1>10 DEF Honest, CarriedOut
<1>16. Valid'
  <2>1. op.effect = "rotate" => path = "main"
    BY <1>1, <1>3 DEF Waiting
  <2> QED BY <1>2, <1>3, <1>4, <1>5, <1>6, <1>9, <2>1 DEF Valid, CarriedOut
<1>17. Converted'
  <2>1. CASE path = "list"
    BY <1>1, <1>2, <1>10, <2>1 DEF Converted
  <2>2. CASE path = "main"
    BY <1>1, <1>2, <1>4, <1>5, <1>6, <1>9, <2>2 DEF Converted, CarriedOut
  <2> QED BY <1>3, <2>1, <2>2
<1> QED BY <1>12, <1>13, <1>14, <1>15, <1>16, <1>17 DEF IInv

\* A request served late cannot hurt a rotation: with one adrift, none was
\* carried out before.
LEMMA ServeStrayKeeps == ASSUME IInv, ServeStray PROVE IInv'
<1> USE AttemptsAssumption, ReplaysAssumption
<1>1. TypeOK /\ Counted /\ Waiting /\ Honest /\ Valid /\ Converted /\ Regular(op)
      /\ Budget \in Nat /\ Budget <= Attempts
  BY OperationFacts DEF IInv
<1>2. /\ stray > 0 /\ stray' = stray - 1 /\ late' = TRUE
      /\ UNCHANGED <<op, phase, path, tries, inner, cancelled, flying, replays, answer,
                     outcome, refused, granted>>
  BY DEF ServeStray, loopVars
<1>3. tries \in Nat /\ stray \in Nat /\ applied \in Nat /\ Extra \in 0..Replays
      /\ Extra' = Extra /\ Budget' = Budget /\ Sent' = Sent /\ Sent \in {0, 1}
  BY <1>1, <1>2 DEF TypeOK, Extra, Budget, Sent
<1>4. applied < Attempts + Replays
  BY <1>1, <1>2, <1>3 DEF Counted
<1>5. PICK a \in Answers : Perform(op, a) \/ Refuse(op, a)
  BY DEF ServeStray
<1>6. CarriedOut(op, a)
  BY <1>1, <1>4, <1>5, Carried
<1>7. applied' + stray' + Sent' <= tries' + Extra'
  <2>1. applied' = applied \/ applied' = applied + 1
    BY <1>6 DEF CarriedOut
  <2>2. /\ applied + (stray - 1) + Sent <= tries + Extra
        /\ (applied + 1) + (stray - 1) + Sent <= tries + Extra
    BY <1>1, <1>2, <1>3 DEF Counted
  <2> QED BY <1>2, <1>3, <2>1, <2>2
<1>8. Counted'
  BY <1>1, <1>2, <1>3, <1>7 DEF Counted
<1>9. TypeOK'
  <2>1. tries <= Attempts /\ tries' = tries /\ applied' \in Nat /\ stray' \in Nat
    BY <1>1, <1>2, <1>3, <1>6 DEF Counted, CarriedOut
  <2>2. applied' \in 0..(Attempts + Replays) /\ stray' \in 0..(Attempts + Replays)
    BY <1>3, <1>7, <2>1, Within
  <2> QED BY <1>1, <1>2, <1>6, <2>2 DEF TypeOK, Items, CarriedOut
<1>10. Waiting' /\ Honest' /\ Converted'
  BY <1>1, <1>2, <1>6 DEF Waiting, Honest, Converted, CarriedOut
<1>11. Valid'
  <2>1. op.effect = "rotate" /\ replays = 0 => applied = 0
    <3>1. op.effect = "rotate" => Budget = 1
      BY <1>1 DEF Budget, Regular
    <3>2. replays = 0 => Extra = 0
      BY DEF Extra
    <3> QED BY <1>1, <1>2, <1>3, <3>1, <3>2 DEF Counted
  <2> QED BY <1>1, <1>2, <2>1 DEF Valid
<1> QED BY <1>8, <1>9, <1>10, <1>11 DEF IInv

LEMMA LoseKeeps == ASSUME IInv, Lose PROVE IInv'
<1> USE AttemptsAssumption, ReplaysAssumption
<1>1. TypeOK /\ Counted /\ Waiting /\ Honest /\ Valid /\ Converted /\ Regular(op)
  BY OperationFacts DEF IInv
<1>2. UNCHANGED <<op, phase, path, tries, inner, cancelled, replays, outcome, item, applied,
                  met, late, refused, granted>>
  BY DEF Lose, loopVars, portalVars
<1>3. None \in Answers /\ None.status = 0 /\ None.body = "none"
  BY DEF None, Answers, Statuses, Bodies
<1>4. /\ stray' \in 0..(Attempts + Replays) /\ stray' <= stray
      /\ flying' \in BOOLEAN /\ (flying' => flying)
      /\ answer' = None \/ answer' = answer
  <2>1. stray \in 0..(Attempts + Replays) /\ flying \in BOOLEAN
    BY <1>1 DEF TypeOK
  <2>2. stray' = stray \/ (stray > 0 /\ stray' = stray - 1)
    BY DEF Lose
  <2>3. (flying /\ flying' = FALSE) \/ flying' = flying
    BY DEF Lose
  <2>4. answer' = None \/ answer' = answer
    BY DEF Lose
  <2>5. stray' \in 0..(Attempts + Replays) /\ stray' <= stray
    BY <2>1, <2>2
  <2>6. flying' \in BOOLEAN /\ (flying' => flying)
    <3>1. CASE flying' = FALSE
      BY <3>1
    <3>2. CASE flying' = flying
      BY <2>1, <3>2
    <3> QED BY <2>3, <3>1, <3>2
  <2> QED BY <2>4, <2>5, <2>6
<1>5. tries \in Nat /\ stray \in Nat /\ applied \in Nat /\ Extra \in Nat
      /\ Extra' = Extra /\ Budget' = Budget
  BY <1>1, <1>2 DEF TypeOK, Extra, Budget
<1>6. Counted'
  <2>1. Sent \in Nat /\ (Sent' = Sent \/ Sent' = 0)
    BY <1>2, <1>4 DEF Sent
  <2>2. stray' = stray \/ (stray > 0 /\ stray' = stray - 1)
    BY DEF Lose
  <2>3. /\ applied + stray + Sent <= tries + Extra
        /\ applied + stray + 0 <= tries + Extra
        /\ applied + (stray - 1) + Sent <= tries + Extra
        /\ applied + (stray - 1) + 0 <= tries + Extra
    BY <1>1, <1>5, <2>1 DEF Counted
  <2>4. applied' + stray' + Sent' <= tries' + Extra'
    BY <1>2, <1>5, <2>1, <2>2, <2>3
  <2> QED BY <1>1, <1>2, <1>5, <2>4 DEF Counted
<1>7. TypeOK'
  <2>1. answer' \in Answers
    BY <1>1, <1>3, <1>4 DEF TypeOK
  <2> QED BY <1>1, <1>2, <1>4, <2>1 DEF TypeOK
<1>8. Waiting'
  BY <1>1, <1>2, <1>4 DEF Waiting
<1>9. Honest' /\ Valid' /\ Converted'
  BY <1>1, <1>2, <1>3, <1>4 DEF Honest, Valid, Converted, Regular
<1> QED BY <1>6, <1>7, <1>8, <1>9 DEF IInv

LEMMA OthersKeep == ASSUME IInv, Elsewhere \/ Cancel \/ UNCHANGED vars PROVE IInv'
<1>1. TypeOK /\ Counted /\ Waiting /\ Honest /\ Valid /\ Converted
  BY DEF IInv
<1>2. UNCHANGED <<op, phase, path, tries, inner, flying, stray, replays, answer, outcome,
                  applied, met, late, refused, granted>>
  BY DEF Elsewhere, Cancel, vars, loopVars, netVars, portalVars
<1>3. cancelled' \in BOOLEAN /\ item' \in Items /\ item'.cred = item.cred
      /\ (item.onchain => item'.onchain)
  BY <1>1 DEF Elsewhere, Cancel, vars, portalVars, TypeOK, Items
<1>4. Counted'
  BY <1>1, <1>2 DEF Counted, Sent, Extra, Budget
<1>5. TypeOK'
  BY <1>1, <1>2, <1>3 DEF TypeOK, Items
<1>6. Waiting' /\ Honest' /\ Valid' /\ Converted'
  BY <1>1, <1>2, <1>3 DEF Waiting, Honest, Valid, Converted
<1> QED BY <1>4, <1>5, <1>6 DEF IInv

LEMMA StepIInv == ASSUME IInv, [Next]_vars PROVE IInv'
  BY BeginWakeKeeps, BreakKeeps, ReceiveKeeps, AttemptKeeps, ReplayKeeps, ServeKeeps,
     ServeStrayKeeps, LoseKeeps, OthersKeep DEF Next

-----------------------------------------------------------------------------
(* The theorems. *)

\* What is known of a call holds for any number of attempts and replays.
THEOREM Invariance == Spec => []IInv
  BY InitIInv, StepIInv, PTL DEF Spec

\* The variables of a call keep to their types: the requests adrift and carried
\* out in particular are no more than the attempts and replays.
THEOREM CallTypes == Spec => []TypeOK
<1>1. IInv => TypeOK
  BY DEF IInv
<1> QED BY <1>1, Invariance, PTL

\* A call that returns no error had its effect or found it.
THEOREM SuccessMeans == Spec => []OkMeansDone
<1>1. IInv => OkMeansDone
  BY DEF IInv, Honest, OkMeansDone
<1> QED BY <1>1, Invariance, PTL

\* What a call does to the portal is multiplied by its attempts and the replays
\* of a GET at most.
THEOREM AppliedBounded == Spec => []DuplicatesBounded
<1>1. ASSUME IInv PROVE DuplicatesBounded
  <2>1. applied + stray + Sent <= tries + Extra /\ tries <= Budget
    BY <1>1 DEF IInv, Counted
  <2>2. applied \in Nat /\ stray \in Nat /\ tries \in Nat /\ Extra \in Nat /\ Budget \in Nat
        /\ Sent \in Nat
    BY <1>1, OperationFacts, ReplaysAssumption DEF IInv, TypeOK, Extra, Sent
  <2> QED BY <2>1, <2>2 DEF DuplicatesBounded, Extra
<1> QED BY <1>1, Invariance, PTL

\* The credential a rotation hands back is still the valid one, unless the
\* transport replayed a request.
THEOREM CredentialValid == Spec => []CredentialStands
<1>1. IInv => CredentialStands
  BY DEF IInv, Valid, CredentialStands
<1> QED BY <1>1, Invariance, PTL

\* Only the steps of the client can end a call.
LEMMA EndingSteps ==
  ASSUME Next, outcome' # outcome
  PROVE  Begin \/ Wake \/ Break \/ Receive
  BY DEF Next, Attempt, Replay, Cancel, Serve, ServeStray, Lose, Elsewhere

\* After a code that is not retried the call sends no request of its own.
THEOREM RefusalsStop == Spec => RefusedStops
<1>1. ASSUME IInv, [Next]_vars PROVE [tries' > tries => "main" \notin refused]_vars
  <2>1. ASSUME tries' > tries PROVE phase # "done"
    <3>1. tries \in Nat /\ tries' # tries
      BY <1>1, <2>1 DEF IInv, TypeOK
    <3>2. UNCHANGED tries \/ Begin \/ Attempt \/ Wake \/ Break \/ Receive
      BY <1>1 DEF Next, vars, Replay, Cancel, Serve, ServeStray, Lose, Elsewhere, loopVars
    <3> QED BY <3>1, <3>2 DEF Begin, Attempt, Wake, Break, Receive
  <2> QED BY <1>1, <2>1 DEF IInv, Waiting
<1> QED BY <1>1, Invariance, PTL DEF Spec, RefusedStops

\* A success the client decoded is a success of the call, at whatever status of
\* whatever operation.
THEOREM DecodedSucceeds == Spec => UnderstoodSucceeds
<1>1. ASSUME IInv, Receive, answer.body = "data", answer.status \in Asked.decodes \ PinErrors
      PROVE  outcome' = "ok"
  <2>1. Regular(Asked) /\ path \in {"main", "list"}
    BY <1>1, OperationFacts, ListRegular DEF IInv, TypeOK, Asked
  <2>2. Success(Asked, answer)
    BY <1>1, <2>1 DEF Success, Decoded, Regular
  <2>3. ~Undecodable(Asked, answer) /\ answer.body # "onchain" /\ Judge
    BY <1>1 DEF Undecodable, Receive
  <2>4. IF path = "list" THEN Listed ELSE Return("ok")
    BY <2>2, <2>3 DEF Judge
  <2> QED BY <1>1, <2>4 DEF Listed, Return
<1>2. ASSUME IInv, [Next]_vars
      PROVE  [Receive /\ answer.body = "data" /\ answer.status \in Asked.decodes \ PinErrors
                => outcome' = "ok"]_vars
  BY <1>1, <1>2
<1> QED BY <1>2, Invariance, PTL DEF Spec, UnderstoodSucceeds

\* Short of a refusal a call fails with its attempts spent.
THEOREM AttemptsSpent == Spec => RetriesSpent
<1>1. ASSUME IInv, Next, outcome = "none", outcome' \in {"refused", "failed"},
             answer.status \notin Final
      PROVE  tries = Budget
  <2>1. TypeOK /\ Counted /\ Waiting /\ tries \in Nat /\ Budget \in Nat /\ tries <= Budget
    BY <1>1, OperationFacts DEF IInv, TypeOK, Counted
  <2>2. Begin \/ Wake \/ Break \/ Receive
    BY <1>1, EndingSteps
  <2>3. CASE (Begin \/ Wake) /\ FailMain
    BY <1>1, <2>1, <2>3, FailMainTurns
  <2>4. CASE (Begin \/ Wake) /\ ~FailMain
    BY <1>1, <2>4 DEF Begin, Wake, Return
  <2>5. CASE Break
    BY <1>1, <2>1, <2>5, FailTurns DEF Break
  <2>6. CASE Receive
    BY <1>1, <2>1, <2>6, JudgeTurns DEF Receive
  <2> QED BY <2>2, <2>3, <2>4, <2>5, <2>6
<1>2. ASSUME IInv, [Next]_vars
      PROVE  [outcome = "none" /\ outcome' \in {"refused", "failed"}
                /\ answer.status \notin Final => tries = Budget]_vars
  BY <1>1, <1>2
<1> QED BY <1>2, Invariance, PTL DEF Spec, RetriesSpent

\* A conversion the portal committed is not reported as ineligible, as long as
\* requests arrive in order.
THEOREM ConversionSettles == Spec => ConvertSettles
<1>1. ASSUME IInv, Next, op.effect = "convert", outcome = "none", outcome' = "refused",
             answer.status = 422
      PROVE  applied = 0 \/ late
  <2>1. TypeOK /\ Regular(op)
    BY <1>1, OperationFacts DEF IInv
  <2>2. Receive
    <3>1. Begin \/ Wake \/ Break \/ Receive
      BY <1>1, EndingSteps
    <3>2. ASSUME FailMain PROVE FALSE
      BY <1>1, <2>1, <3>2, FailMainTurns
    <3>3. ~Break
      BY <1>1, <2>1, FailTurns DEF Break
    <3>4. ~Begin /\ ~Wake
      BY <1>1, <3>2 DEF Begin, Wake, Return
    <3> QED BY <3>1, <3>3, <3>4
  <2>3. path = "main" /\ ~Undecodable(op, answer) /\ answer.body # "onchain"
    BY <1>1, <2>2, JudgeTurns DEF Receive
  <2>4. answer.body # "garbled"
    BY <1>1, <2>1, <2>3 DEF Undecodable, Regular
  <2> QED BY <1>1, <2>3, <2>4 DEF IInv, Converted
<1>2. ASSUME IInv, [Next]_vars
      PROVE  [op.effect = "convert" /\ outcome = "none" /\ outcome' = "refused"
                /\ answer.status = 422 => applied = 0 \/ late]_vars
  BY <1>1, <1>2
<1> QED BY <1>2, Invariance, PTL DEF Spec, ConvertSettles

-----------------------------------------------------------------------------
(* A call takes finitely many steps: each lowers its rank.                  *)

\* What is left of the round that began with the latest attempt of the call's
\* own loop: waiting, the second loop, the back-off, until the next attempt.
Stage == CASE phase = "done"                       -> 0
           [] path = "list" /\ phase # "done"      -> 3
           [] path = "main" /\ phase = "call"      -> 5
           [] path = "main" /\ phase = "wait"      -> 4
           [] path = "main" /\ phase = "backoff"   -> 2
           [] path = "main" /\ phase = "ready"     -> 1

\* The same within a round of either loop.
Turn == CASE phase = "call"    -> 4
          [] phase = "wait"    -> 3
          [] phase = "backoff" -> 2
          [] phase = "ready"   -> 1
          [] phase = "done"    -> 0

Rank == <<Budget - tries, Stage, Attempts - inner, Turn, Replays - replays>>

ClientStep == Begin \/ Attempt \/ Replay \/ Break \/ Wake \/ Receive

\* Every step of the call lowers the rank; the portal, the network, other
\* clients and the cancellation leave it as it is.
RankFalls == [][IF ClientStep THEN Below(Rank', Rank, 5) ELSE Rank' = Rank]_vars


\* Ranks are ranks: the loops stay within their attempts.
LEMMA RankTuple == IInv => Rank \in [1..5 -> Nat]
<1> SUFFICES ASSUME IInv PROVE Rank \in [1..5 -> Nat]
  OBVIOUS
<1>1. TypeOK /\ Budget \in Nat /\ tries <= Budget
  BY OperationFacts DEF IInv, Counted
<1>2. Budget - tries \in Nat /\ Attempts - inner \in Nat /\ Replays - replays \in Nat
  BY <1>1, AttemptsAssumption, ReplaysAssumption DEF TypeOK
<1>3. Stage \in Nat /\ Turn \in Nat
  BY <1>1 DEF TypeOK, Stage, Turn
<1> DEFINE r1 == Budget - tries
           r3 == Attempts - inner
           r5 == Replays - replays
<1> HIDE DEF r1, r3, r5
<1>4. <<r1, Stage, r3, Turn, r5>> \in [1..5 -> Nat]
  <2>1. r1 \in Nat /\ r3 \in Nat /\ r5 \in Nat
    BY <1>2 DEF r1, r3, r5
  <2> QED BY <1>3, <2>1
<1> QED BY <1>4 DEF Rank, r1, r3, r5

\* A later stage of the same round.
LEMMA StageFalls ==
  ASSUME UNCHANGED <<op, tries>>, Stage' < Stage
  PROVE  Below(Rank', Rank, 5)
<1>1. Budget' - tries' = Budget - tries
  BY DEF Budget
<1> QED BY <1>1, BelowOfFive DEF Rank

\* The end of a round, if the call was waiting or listing.
LEMMA FailMainFalls ==
  ASSUME TypeOK, FailMain, op' = op, phase # "done", path = "list" \/ phase = "wait"
  PROVE  Below(Rank', Rank, 5)
<1>1. path' = "main" /\ tries' = tries /\ phase' \in {"backoff", "done"}
  BY DEF FailMain
<1>2. Stage' \in {0, 2}
  BY <1>1 DEF Stage
<1>3. Stage \in {3, 4}
  BY DEF TypeOK, Stage
<1> QED BY <1>1, <1>2, <1>3, StageFalls

LEMMA ReturnFalls ==
  ASSUME TypeOK, op' = op, phase # "done", NEW o, Return(o)
  PROVE  Below(Rank', Rank, 5)
<1>1. Stage' = 0 /\ tries' = tries
  BY DEF Return, Stage, loopVars
<1>2. Stage \in {1, 2, 3, 4, 5}
  BY DEF TypeOK, Stage
<1> QED BY <1>1, <1>2, StageFalls

\* A step within the round of a loop.
LEMMA TurnFalls ==
  ASSUME UNCHANGED <<op, tries, inner>>, Stage' = Stage, Turn' < Turn
  PROVE  Below(Rank', Rank, 5)
<1>1. Budget' - tries' = Budget - tries /\ Attempts - inner' = Attempts - inner
  BY DEF Budget
<1> QED BY <1>1, BelowOfFive DEF Rank

LEMMA FailFalls ==
  ASSUME TypeOK, Fail, op' = op, phase = "wait"
  PROVE  Below(Rank', Rank, 5)
<1>1. CASE path = "list" /\ phase' = "backoff" /\ UNCHANGED loopVars
  <2>1. Stage' = Stage /\ Turn' < Turn
    BY <1>1 DEF Stage, Turn, loopVars
  <2> QED BY <1>1, <2>1, TurnFalls DEF loopVars
<1>2. CASE FailMain
  BY <1>2, FailMainFalls
<1> QED BY <1>1, <1>2 DEF Fail

LEMMA BeginWakeFalls ==
  ASSUME IInv, Begin \/ Wake
  PROVE  Below(Rank', Rank, 5)
<1>1. TypeOK /\ op' = op /\ phase \in {"call", "backoff"}
  BY DEF IInv, Begin, Wake
<1>2. CASE \E o \in {"early", "cancelled"} : Return(o)
  BY <1>1, <1>2, ReturnFalls
<1>3. CASE path = "list" /\ FailMain
  BY <1>1, <1>3, FailMainFalls
<1>4. CASE phase' = "ready" /\ UNCHANGED loopVars
  <2>1. CASE path = "list"
    <3>1. Stage' = Stage /\ Turn' < Turn
      BY <1>1, <1>4, <2>1 DEF Stage, Turn, loopVars
    <3> QED BY <1>1, <1>4, <3>1, TurnFalls DEF loopVars
  <2>2. CASE path = "main"
    <3>1. Stage' < Stage
      BY <1>1, <1>4, <2>2 DEF Stage, loopVars
    <3> QED BY <1>1, <1>4, <3>1, StageFalls DEF loopVars
  <2> QED BY <1>1, <2>1, <2>2 DEF TypeOK
<1> QED BY <1>2, <1>3, <1>4 DEF Begin, Wake

LEMMA AttemptFalls ==
  ASSUME IInv, Attempt
  PROVE  Below(Rank', Rank, 5)
<1>1. TypeOK /\ Budget \in Nat /\ Budget' = Budget /\ tries \in Nat /\ inner \in Nat
  BY OperationFacts DEF IInv, TypeOK, Attempt, Budget
<1>2. CASE path = "main"
  <2>1. Budget' - tries' < Budget - tries
    BY <1>1, <1>2 DEF Attempt
  <2> QED BY <2>1, BelowOfFive DEF Rank
<1>3. CASE path = "list"
  <2>1. Budget' - tries' = Budget - tries /\ Attempts - inner' < Attempts - inner
    BY <1>1, <1>3, AttemptsAssumption DEF Attempt
  <2>2. Stage' = Stage
    BY <1>3 DEF Attempt, Stage
  <2> QED BY <2>1, <2>2, BelowOfFive DEF Rank
<1> QED BY <1>1, <1>2, <1>3 DEF TypeOK

LEMMA ReplayFalls ==
  ASSUME IInv, Replay
  PROVE  Below(Rank', Rank, 5)
<1>1. /\ UNCHANGED <<op, phase, path, tries, inner>>
      /\ replays \in Nat /\ replays' = replays + 1 /\ Replays \in Nat
  BY ReplaysAssumption DEF IInv, TypeOK, Replay, loopVars
<1>2. /\ Budget' - tries' = Budget - tries /\ Attempts - inner' = Attempts - inner
      /\ Stage' = Stage /\ Turn' = Turn
  BY <1>1 DEF Budget, Stage, Turn
<1>3. Replays - replays' < Replays - replays
  BY <1>1
<1> QED BY <1>2, <1>3, BelowOfFive DEF Rank

\* The closure's verdict ends the round, or opens the second loop.
LEMMA ReceiveFalls ==
  ASSUME IInv, Receive
  PROVE  Below(Rank', Rank, 5)
<1>1. TypeOK /\ op' = op /\ phase = "wait" /\ Judge
  BY DEF IInv, Receive
<1>2. CASE Fail
  BY <1>1, <1>2, FailFalls
<1>3. CASE path = "main" /\ phase' = "call" /\ path' = "list" /\ UNCHANGED <<tries, inner>>
  <2>1. Stage' < Stage
    BY <1>1, <1>3 DEF Stage
  <2> QED BY <1>1, <1>3, <2>1, StageFalls
<1>4. CASE FailMain
  BY <1>1, <1>4, FailMainFalls
<1>5. CASE \E o \in {"ok", "refused"} : Return(o)
  BY <1>1, <1>5, ReturnFalls
<1> QED BY <1>1, <1>2, <1>3, <1>4, <1>5 DEF Judge, Listed, Stop

\* A call of any operation takes finitely many steps (RetryContext, also around
\* the second loop of ConvertDomainToOnChain): together with RanksEnd this is
\* what CallReturns needs besides the fairness of FairSpec.
THEOREM CallsEnd == Spec => [](Rank \in [1..5 -> Nat]) /\ RankFalls
<1> DEFINE Falls == IF ClientStep THEN Below(Rank', Rank, 5) ELSE Rank' = Rank
<1>1. IInv /\ [Next]_vars => [Falls]_vars
  <2> SUFFICES ASSUME IInv, Next PROVE Falls
    OBVIOUS
  <2>1. CASE ClientStep
    <3>1. CASE Break
      <4>1. TypeOK /\ op' = op /\ phase = "wait" /\ Fail
        BY <3>1 DEF IInv, Break
      <4> QED BY <2>1, <4>1, FailFalls
    <3> QED BY <2>1, <3>1, BeginWakeFalls, AttemptFalls, ReplayFalls, ReceiveFalls
            DEF ClientStep
  <2>2. CASE ~ClientStep
    <3>1. UNCHANGED <<op, phase, path, tries, inner, replays>>
      BY <2>2 DEF Next, ClientStep, Serve, ServeStray, Lose, Elsewhere, Cancel,
                  loopVars, netVars
    <3> QED BY <2>2, <3>1 DEF Rank, Budget, Stage, Turn
  <2> QED BY <2>1, <2>2
<1>2. IInv => Rank \in [1..5 -> Nat]
  BY RankTuple
<1> QED BY <1>1, <1>2, Invariance, PTL DEF Spec, RankFalls


=============================================================================
