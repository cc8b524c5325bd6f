----------------------------- MODULE ApiClient -----------------------------
(***************************************************************************)
(* The request layer of the Python client (metaguildnet/api/client.py):    *)
(* Client._request and its wrappers.  One HTTP round trip is abstracted    *)
(* to the response it produces (module Http) and the call to what it       *)
(* returns or raises.                                                      *)
(***************************************************************************)
EXTENDS Naturals, Http

Methods == {"GET", "POST", "PUT", "DELETE"}

\* The exceptions a call of _request can raise: TransportError is httpx's
\* own exception, DecodeError is the ValueError of response.json().
ErrorKinds == {"TransportError", "NotFound", "Unauthorized", "APIError",
               "DecodeError"}

Raised(kind) == [kind |-> kind, val |-> NoValue]
Returned(v)  == [kind |-> "Ok", val |-> v]

(***************************************************************************)
(* Client._request: the status is tested 404, then 401/403, then >= 400;  *)
(* a successful DELETE returns None without reading the body; any other   *)
(* success returns None for an empty body and response.json() otherwise,  *)
(* which raises on a malformed body.                                       *)
(***************************************************************************)
Request(method, resp) ==
  IF resp.status = 0 THEN Raised("TransportError")
  ELSE IF resp.status = 404 THEN Raised("NotFound")
  ELSE IF resp.status \in {401, 403} THEN Raised("Unauthorized")
  ELSE IF resp.status >= 400 THEN Raised("APIError")
  ELSE IF method = "DELETE" THEN Returned(NoValue)
  ELSE IF resp.body = "Empty" THEN Returned(NoValue)
  ELSE IF resp.body = "Malformed" THEN Raised("DecodeError")
  ELSE Returned(resp.data)

\* A call raised an exception, or returned None where the caller then
\* calls .get() on the result (an AttributeError in the caller).
Fails(res) == res.kind # "Ok"

=============================================================================
