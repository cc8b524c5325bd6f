-------------------------------- MODULE Http --------------------------------
(***************************************************************************)
(* The shape of one HTTP exchange as the client sees it.  A response has  *)
(* a status code and a body, which is "Empty", "Malformed" (text that is  *)
(* not JSON) or "Json"; a JSON body carries in data the one value the     *)
(* callers read out of it (a status string, a list of ids, ...).  A       *)
(* request that gets no HTTP answer (connection refused, DNS, TLS, the    *)
(* client's timeout) is the response with status 0.                      *)
(***************************************************************************)
EXTENDS Naturals

CONSTANT
  NoValue   \* the value a call returns when it returns None

BodyKinds == {"Empty", "Malformed", "Json"}

Answer(status, data) == [status |-> status, body |-> "Json", data |-> data]
EmptyAnswer(status)  == [status |-> status, body |-> "Empty", data |-> NoValue]
BadAnswer(status)    == [status |-> status, body |-> "Malformed", data |-> NoValue]
NoAnswer             == EmptyAnswer(0)

=============================================================================
