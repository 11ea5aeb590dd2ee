---------------------------- MODULE GeneratedClient ----------------------------
(***************************************************************************)
(* What the services need to know of the two generated clients: the HTTP    *)
(* method an operation's request goes out with, and at which statuses the   *)
(* answer's parser decodes a JSON body (the JSONnnn fields).  An answer     *)
(* that has such a status and says it is JSON but does not decode is an     *)
(* error of the ...WithResponse call, whatever its status; any other answer *)
(* is handed on with its fields nil.  Paths, parameters and the types the   *)
(* bodies are decoded into are left out.                                    *)
(***************************************************************************)
EXTENDS Integers

\* The errors every parser of the portal's API decodes.
Errors == {400, 401, 403, 404, 422, 500}

\* The pinning API's parsers decode all of them, by class.
PinErrors == 400..599

-----------------------------------------------------------------------------
\* The DNS API.
NewGetApiDnsZonesRequest == "GET"
ParseGetApiDnsZonesResponse == Errors \union {200}
NewGetApiDnsZonesIdRequest == "GET"
ParseGetApiDnsZonesIdResponse == Errors \union {200}
NewPostApiDnsZonesRequest == "POST"
ParsePostApiDnsZonesResponse == Errors \union {201}
NewDeleteApiDnsZonesIdRequest == "DELETE"
ParseDeleteApiDnsZonesIdResponse == Errors
NewGetApiDnsZonesIdStatusRequest == "GET"
ParseGetApiDnsZonesIdStatusResponse == Errors \union {200}
NewPostApiDnsZonesIdValidateRequest == "POST"
ParsePostApiDnsZonesIdValidateResponse == Errors \union {200}
NewGetApiDnsZonesIdRecordsRequest == "GET"
ParseGetApiDnsZonesIdRecordsResponse == Errors \union {200}
NewPostApiDnsZonesIdRecordsRequest == "POST"
ParsePostApiDnsZonesIdRecordsResponse == Errors \union {201}
NewGetApiDnsZonesIdRecordsNameTypeRequest == "GET"
ParseGetApiDnsZonesIdRecordsNameTypeResponse == Errors \union {200}
NewPutApiDnsZonesIdRecordsNameTypeRequest == "PUT"
ParsePutApiDnsZonesIdRecordsNameTypeResponse == Errors \union {200}
NewDeleteApiDnsZonesIdRecordsNameTypeRequest == "DELETE"
ParseDeleteApiDnsZonesIdRecordsNameTypeResponse == Errors
NewPostApiDnsZonesIdRecordsBulkRequest == "POST"
ParsePostApiDnsZonesIdRecordsBulkResponse == Errors \union {200}
NewPostApiDnsZonesIdRecordsBulkDeleteRequest == "POST"
ParsePostApiDnsZonesIdRecordsBulkDeleteResponse == Errors \union {200}
NewPostInternalDnsCertRequest == "POST"
ParsePostInternalDnsCertResponse == Errors \union {200}
NewGetInternalDnsCertDomainRequest == "GET"
ParseGetInternalDnsCertDomainResponse == Errors \union {200}
NewPostInternalDnsTlsaRequest == "POST"
ParsePostInternalDnsTlsaResponse == Errors \union {200}

-----------------------------------------------------------------------------
\* The IPNS API.
NewGetApiIpnsKeysRequest == "GET"
ParseGetApiIpnsKeysResponse == Errors \union {200}
NewGetApiIpnsKeysIdRequest == "GET"
ParseGetApiIpnsKeysIdResponse == Errors \union {200}
NewPostApiIpnsKeysRequest == "POST"
ParsePostApiIpnsKeysResponse == Errors \union {201}
NewDeleteApiIpnsKeysIdRequest == "DELETE"
ParseDeleteApiIpnsKeysIdResponse == Errors
NewPostApiIpnsPublishRequest == "POST"
ParsePostApiIpnsPublishResponse == Errors \union {200}
NewPostApiIpnsKeysIdRepublishRequest == "POST"
ParsePostApiIpnsKeysIdRepublishResponse == Errors \union {200}
NewGetApiIpnsResolveNameRequest == "GET"
ParseGetApiIpnsResolveNameResponse == Errors \union {200}

-----------------------------------------------------------------------------
\* The workspaces API.
NewGetApiWorkspacesRequest == "GET"
ParseGetApiWorkspacesResponse == Errors \union {200}
NewGetApiWorkspacesIdRequest == "GET"
ParseGetApiWorkspacesIdResponse == Errors \union {200}
NewPostApiWorkspacesRequest == "POST"
ParsePostApiWorkspacesResponse == Errors \union {201}
NewDeleteApiWorkspacesIdRequest == "DELETE"
ParseDeleteApiWorkspacesIdResponse == Errors \union {200, 409}
NewGetApiWorkspacesIdAccessRequest == "GET"
ParseGetApiWorkspacesIdAccessResponse == Errors \union {200}
NewPostApiWorkspacesIdAttachRequest == "POST"
ParsePostApiWorkspacesIdAttachResponse == Errors \union {200}
NewPostApiWorkspacesIdResumeRequest == "POST"
ParsePostApiWorkspacesIdResumeResponse == Errors \union {200}
NewPostApiWorkspacesIdSuspendRequest == "POST"
ParsePostApiWorkspacesIdSuspendResponse == Errors \union {200}
NewGetApiWorkspacesResolveRequest == "GET"
ParseGetApiWorkspacesResolveResponse == Errors \union {200}

-----------------------------------------------------------------------------
\* The websites API.
NewGetApiWebsitesRequest == "GET"
ParseGetApiWebsitesResponse == Errors \union {200}
NewGetApiWebsitesIdRequest == "GET"
ParseGetApiWebsitesIdResponse == Errors \union {200, 410}
NewPostApiWebsitesRequest == "POST"
ParsePostApiWebsitesResponse == Errors \union {201, 410}
NewPutApiWebsitesIdRequest == "PUT"
ParsePutApiWebsitesIdResponse == Errors \union {200}
NewDeleteApiWebsitesIdRequest == "DELETE"
ParseDeleteApiWebsitesIdResponse == Errors
NewGetApiWebsitesDomainSslStatusRequest == "GET"
ParseGetApiWebsitesDomainSslStatusResponse == Errors \union {200}
NewPostApiWebsitesIdValidateRequest == "POST"
ParsePostApiWebsitesIdValidateResponse == Errors \union {200}
NewPostInternalWebsitesDomainSslStatusRequest == "POST"
ParsePostInternalWebsitesDomainSslStatusResponse == Errors \union {200}
NewGetInternalWebsitesDomainRequest == "GET"
ParseGetInternalWebsitesDomainResponse == Errors \union {200, 410}
NewGetInternalWebsitesDomainStatusRequest == "GET"
ParseGetInternalWebsitesDomainStatusResponse == Errors \union {200, 410}
NewGetInternalWebsitesChangesRequest == "GET"
ParseGetInternalWebsitesChangesResponse == Errors \union {200}
NewGetApiWebsitesConfigRequest == "GET"
ParseGetApiWebsitesConfigResponse == Errors \union {200}
NewGetApiWebsitesIdDomainsRequest == "GET"
ParseGetApiWebsitesIdDomainsResponse == Errors \union {200}
NewPostApiWebsitesIdDomainsRequest == "POST"
ParsePostApiWebsitesIdDomainsResponse == Errors \union {201}
NewPatchApiWebsitesIdDomainsDomainIdRequest == "PATCH"
ParsePatchApiWebsitesIdDomainsDomainIdResponse == Errors \union {200}
NewDeleteApiWebsitesIdDomainsDomainIdRequest == "DELETE"
ParseDeleteApiWebsitesIdDomainsDomainIdResponse == Errors
NewPostApiWebsitesIdDomainsDomainIdVerifyRequest == "POST"
ParsePostApiWebsitesIdDomainsDomainIdVerifyResponse == Errors \union {200}
NewGetApiWebsitesIdDomainsDomainIdDnsRequirementsRequest == "GET"
ParseGetApiWebsitesIdDomainsDomainIdDnsRequirementsResponse == Errors \union {200}
NewPostApiWebsitesIdDomainsDomainIdDaneRepublishRequest == "POST"
ParsePostApiWebsitesIdDomainsDomainIdDaneRepublishResponse == Errors \union {200}
NewPostApiWebsitesIdDomainsDomainIdOnchainRequest == "POST"
ParsePostApiWebsitesIdDomainsDomainIdOnchainResponse == Errors \union {200}
NewGetApiWebsitesPlatformDomainsRequest == "GET"
ParseGetApiWebsitesPlatformDomainsResponse == Errors \union {200}
NewGetApiWebsitesPlatformDomainsAvailabilityRequest == "GET"
ParseGetApiWebsitesPlatformDomainsAvailabilityResponse == Errors \union {200}

-----------------------------------------------------------------------------
\* The pinning API.
NewGetPinsRequest == "GET"
ParseGetPinsResponse == PinErrors \union {200}
NewAddPinRequest == "POST"
ParseAddPinResponse == PinErrors \union {202}
NewGetPinByRequestIdRequest == "GET"
ParseGetPinByRequestIdResponse == PinErrors \union {200}
NewDeletePinByRequestIdRequest == "DELETE"
ParseDeletePinByRequestIdResponse == PinErrors
NewGetInternalPingRequest == "GET"
ParseGetInternalPingResponse == Errors \union {200}

-----------------------------------------------------------------------------
\* Ping and DAG.
NewGetApiDagCidRequest == "GET"
ParseGetApiDagCidResponse == Errors \union {200}
=============================================================================
