--------------------------- MODULE ServiceOperations ---------------------------
(***************************************************************************)
(* What each operation of the DNS, IPNS, website, workspace, pinning, DAG   *)
(* and ping services asks of the portal and what it makes of the answer.    *)
(* All of them have one shape: a closure given to RetryContext that sends   *)
(* one request of the generated client and judges its answer, so an         *)
(* operation is a record:                                                   *)
(*   effect  what the portal does to the item the call is about             *)
(*   ok      the statuses its handleResponse takes for success              *)
(*   reads   the statuses whose decoded body it goes on to read; without    *)
(*           that body it fails (ErrBadRequest, which may be retried); {}    *)
(*           for an operation that does without one                         *)
(*   method, decodes   from the generated client                            *)
(*   reparse it decodes a success body itself if the client has not         *)
(*   once    it gives RetryContext a single attempt                         *)
(*   early   it may return before any request (nothing to do, bad argument) *)
(* Names, filters, paging windows and the contents of results are left out. *)
(* Effects: "list" needs no item, "read", "set", "delete", "rotate" and     *)
(* "convert" need it to exist, "create" needs it not to exist, "append"     *)
(* adds one more each time.                                                 *)
(***************************************************************************)
EXTENDS GeneratedClient

Op(effect, ok, reads, method, decodes) ==
  [effect |-> effect, ok |-> ok, reads |-> reads, method |-> method,
   decodes |-> decodes, reparse |-> FALSE, once |-> FALSE, early |-> FALSE]

Answered(effect, method, decodes) == Op(effect, {200}, {200}, method, decodes)

\* handleCreateResponse: the client's JSON201 if there is one, else the body.
Created(effect, method, decodes) ==
  [Op(effect, {200, 201}, {200, 201}, method, decodes) EXCEPT !.reparse = TRUE]

-----------------------------------------------------------------------------
\* dns.go
ListZones == Op("list", {200}, {}, NewGetApiDnsZonesRequest, ParseGetApiDnsZonesResponse)
GetZone == Answered("read", NewGetApiDnsZonesIdRequest, ParseGetApiDnsZonesIdResponse)
CreateZone == Created("create", NewPostApiDnsZonesRequest, ParsePostApiDnsZonesResponse)
DeleteZone ==
  Op("delete", {200, 204}, {}, NewDeleteApiDnsZonesIdRequest, ParseDeleteApiDnsZonesIdResponse)
GetZoneStatus ==
  Answered("read", NewGetApiDnsZonesIdStatusRequest, ParseGetApiDnsZonesIdStatusResponse)
ValidateZone ==
  Answered("set", NewPostApiDnsZonesIdValidateRequest, ParsePostApiDnsZonesIdValidateResponse)
ListRecords ==
  Op("list", {200}, {}, NewGetApiDnsZonesIdRecordsRequest, ParseGetApiDnsZonesIdRecordsResponse)
CreateRecord ==
  Created("append", NewPostApiDnsZonesIdRecordsRequest, ParsePostApiDnsZonesIdRecordsResponse)
GetRecord ==
  Answered("read", NewGetApiDnsZonesIdRecordsNameTypeRequest,
           ParseGetApiDnsZonesIdRecordsNameTypeResponse)
UpdateRecord ==
  Answered("set", NewPutApiDnsZonesIdRecordsNameTypeRequest,
           ParsePutApiDnsZonesIdRecordsNameTypeResponse)
DeleteRecord ==
  [Op("delete", {200, 204}, {}, NewDeleteApiDnsZonesIdRecordsNameTypeRequest,
      ParseDeleteApiDnsZonesIdRecordsNameTypeResponse)
     EXCEPT !.early = TRUE]
BulkCreateRecords ==
  [Op("append", {200}, {}, NewPostApiDnsZonesIdRecordsBulkRequest,
      ParsePostApiDnsZonesIdRecordsBulkResponse)
     EXCEPT !.early = TRUE]
BulkDeleteRecords ==
  [Op("delete", {200}, {}, NewPostApiDnsZonesIdRecordsBulkDeleteRequest,
      ParsePostApiDnsZonesIdRecordsBulkDeleteResponse)
     EXCEPT !.early = TRUE]
PushCert == Answered("set", NewPostInternalDnsCertRequest, ParsePostInternalDnsCertResponse)
GetCert ==
  Answered("read", NewGetInternalDnsCertDomainRequest, ParseGetInternalDnsCertDomainResponse)
UpdateTLSA == Answered("set", NewPostInternalDnsTlsaRequest, ParsePostInternalDnsTlsaResponse)

\* ipns.go
ListKeys == Op("list", {200}, {}, NewGetApiIpnsKeysRequest, ParseGetApiIpnsKeysResponse)
ListKeysPage == Op("list", {200}, {}, NewGetApiIpnsKeysRequest, ParseGetApiIpnsKeysResponse)
GetKey == Answered("read", NewGetApiIpnsKeysIdRequest, ParseGetApiIpnsKeysIdResponse)
CreateKey == Created("append", NewPostApiIpnsKeysRequest, ParsePostApiIpnsKeysResponse)
DeleteKey ==
  Op("delete", {200, 204}, {}, NewDeleteApiIpnsKeysIdRequest, ParseDeleteApiIpnsKeysIdResponse)
Publish == Answered("set", NewPostApiIpnsPublishRequest, ParsePostApiIpnsPublishResponse)
Republish ==
  Answered("set", NewPostApiIpnsKeysIdRepublishRequest, ParsePostApiIpnsKeysIdRepublishResponse)
ResolveName == Answered("read", NewGetApiIpnsResolveNameRequest,
                        ParseGetApiIpnsResolveNameResponse)

\* workspace.go
ListWorkspaces == Op("list", {200}, {}, NewGetApiWorkspacesRequest,
                     ParseGetApiWorkspacesResponse)
GetWorkspace == Answered("read", NewGetApiWorkspacesIdRequest, ParseGetApiWorkspacesIdResponse)
\* Mutant: the workspace looked for in the answer to a 200, like elsewhere.
AcceptedWorkspace ==
  Op("append", {200, 201}, {200}, NewPostApiWorkspacesRequest, ParsePostApiWorkspacesResponse)
CreateWorkspace ==
  Op("append", {201}, {201}, NewPostApiWorkspacesRequest, ParsePostApiWorkspacesResponse)
DeleteWorkspace ==
  Answered("delete", NewDeleteApiWorkspacesIdRequest, ParseDeleteApiWorkspacesIdResponse)
Access ==
  Answered("read", NewGetApiWorkspacesIdAccessRequest, ParseGetApiWorkspacesIdAccessResponse)
AccessRotate ==
  [Answered("rotate", NewGetApiWorkspacesIdAccessRequest, ParseGetApiWorkspacesIdAccessResponse)
     EXCEPT !.once = TRUE]
Attach ==
  Answered("set", NewPostApiWorkspacesIdAttachRequest, ParsePostApiWorkspacesIdAttachResponse)
ResumeWorkspace ==
  Answered("set", NewPostApiWorkspacesIdResumeRequest, ParsePostApiWorkspacesIdResumeResponse)
Suspend ==
  Answered("set", NewPostApiWorkspacesIdSuspendRequest, ParsePostApiWorkspacesIdSuspendResponse)
ResolveWorkspace ==
  Answered("read", NewGetApiWorkspacesResolveRequest, ParseGetApiWorkspacesResolveResponse)

\* websites.go
ListWebsites == Op("list", {200}, {}, NewGetApiWebsitesRequest, ParseGetApiWebsitesResponse)
GetWebsite == Answered("read", NewGetApiWebsitesIdRequest, ParseGetApiWebsitesIdResponse)
CreateWebsite == Created("create", NewPostApiWebsitesRequest, ParsePostApiWebsitesResponse)
UpdateWebsite == Answered("set", NewPutApiWebsitesIdRequest, ParsePutApiWebsitesIdResponse)
DeleteWebsite ==
  Op("delete", {200, 204}, {}, NewDeleteApiWebsitesIdRequest, ParseDeleteApiWebsitesIdResponse)
GetSSLStatus ==
  Answered("read", NewGetApiWebsitesDomainSslStatusRequest,
           ParseGetApiWebsitesDomainSslStatusResponse)
ValidateDNS ==
  Answered("set", NewPostApiWebsitesIdValidateRequest, ParsePostApiWebsitesIdValidateResponse)
UpdateSSLStatusInternal ==
  Op("set", {200, 204}, {}, NewPostInternalWebsitesDomainSslStatusRequest,
     ParsePostInternalWebsitesDomainSslStatusResponse)
GetGatewayWebsite ==
  Answered("read", NewGetInternalWebsitesDomainRequest, ParseGetInternalWebsitesDomainResponse)
GetGatewayWebsiteStatus ==
  Answered("read", NewGetInternalWebsitesDomainStatusRequest,
           ParseGetInternalWebsitesDomainStatusResponse)
ReconcileWebsiteChanges ==
  Answered("list", NewGetInternalWebsitesChangesRequest,
           ParseGetInternalWebsitesChangesResponse)
GetConfig == Answered("list", NewGetApiWebsitesConfigRequest, ParseGetApiWebsitesConfigResponse)
ListDomains ==
  Op("list", {200}, {}, NewGetApiWebsitesIdDomainsRequest, ParseGetApiWebsitesIdDomainsResponse)
BindDomain ==
  Op("create", {201}, {201}, NewPostApiWebsitesIdDomainsRequest,
     ParsePostApiWebsitesIdDomainsResponse)
UpdateDomain ==
  Answered("set", NewPatchApiWebsitesIdDomainsDomainIdRequest,
           ParsePatchApiWebsitesIdDomainsDomainIdResponse)
UnbindDomain ==
  Op("delete", {204}, {}, NewDeleteApiWebsitesIdDomainsDomainIdRequest,
     ParseDeleteApiWebsitesIdDomainsDomainIdResponse)
VerifyDomain ==
  Answered("set", NewPostApiWebsitesIdDomainsDomainIdVerifyRequest,
           ParsePostApiWebsitesIdDomainsDomainIdVerifyResponse)
GetDomainDNSRequirements ==
  Answered("read", NewGetApiWebsitesIdDomainsDomainIdDnsRequirementsRequest,
           ParseGetApiWebsitesIdDomainsDomainIdDnsRequirementsResponse)
RepublishDANE ==
  Answered("set", NewPostApiWebsitesIdDomainsDomainIdDaneRepublishRequest,
           ParsePostApiWebsitesIdDomainsDomainIdDaneRepublishResponse)
ConvertDomainToOnChain ==
  Answered("convert", NewPostApiWebsitesIdDomainsDomainIdOnchainRequest,
           ParsePostApiWebsitesIdDomainsDomainIdOnchainResponse)
ListPlatformDomains ==
  Answered("list", NewGetApiWebsitesPlatformDomainsRequest,
           ParseGetApiWebsitesPlatformDomainsResponse)
CheckPlatformDomainAvailability ==
  Answered("list", NewGetApiWebsitesPlatformDomainsAvailabilityRequest,
           ParseGetApiWebsitesPlatformDomainsAvailabilityResponse)

\* pinning.go: the portal's 404 is a success of RemovePin; AddPin reads the
\* body of a 202 only, though it takes 200 for success too.
ListPins == Op("list", {200}, {}, NewGetPinsRequest, ParseGetPinsResponse)
AddPin == Op("append", {200, 202}, {202}, NewAddPinRequest, ParseAddPinResponse)
GetPin == Answered("read", NewGetPinByRequestIdRequest, ParseGetPinByRequestIdResponse)
RemovePin ==
  Op("delete", {202, 404}, {}, NewDeletePinByRequestIdRequest,
     ParseDeletePinByRequestIdResponse)

\* ping.go, dag.go
Ping == Answered("list", NewGetInternalPingRequest, ParseGetInternalPingResponse)
ResolveDAG == Answered("read", NewGetApiDagCidRequest, ParseGetApiDagCidResponse)

-----------------------------------------------------------------------------
\* Operations whose records are equal behave alike, so each record is here once.
Operations ==
  {ListZones, GetZone, CreateZone, DeleteZone, GetZoneStatus, ValidateZone,
   ListRecords, CreateRecord, GetRecord, UpdateRecord, DeleteRecord,
   BulkCreateRecords, BulkDeleteRecords, PushCert, GetCert, UpdateTLSA,
   ListKeys, ListKeysPage, GetKey, CreateKey, DeleteKey, Publish, Republish,
   ResolveName, ListWorkspaces, GetWorkspace, CreateWorkspace, DeleteWorkspace,
   Access, AccessRotate, Attach, ResumeWorkspace, Suspend, ResolveWorkspace,
   ListWebsites, GetWebsite, CreateWebsite, UpdateWebsite, DeleteWebsite,
   GetSSLStatus, ValidateDNS, UpdateSSLStatusInternal, GetGatewayWebsite,
   GetGatewayWebsiteStatus, ReconcileWebsiteChanges, GetConfig, ListDomains,
   BindDomain, UpdateDomain, UnbindDomain, VerifyDomain,
   GetDomainDNSRequirements, RepublishDANE, ConvertDomainToOnChain,
   ListPlatformDomains, CheckPlatformDomainAvailability, ListPins, AddPin,
   GetPin, RemovePin, Ping, ResolveDAG}
=============================================================================
