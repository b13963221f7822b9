---------------------------- MODULE JsonRpcClient ----------------------------
(***************************************************************************)
(* The JSON-RPC transport of jsonrpc.js as the Web facade of web.js uses   *)
(* it: the constructor parses the endpoint once; each makeCall reads the   *)
(* token from localStorage and JSONrpc.call builds the envelope and the    *)
(* headers of the POST.                                                    *)
(*                                                                         *)
(* JavaScript values are kept with their type, because the code compares  *)
(* them with === and tests their truthiness: a value is a record           *)
(* [type, val].  localStorage stores strings only; getItem of a missing    *)
(* key is null.                                                            *)
(***************************************************************************)
EXTENDS Naturals, Sequences

CONSTANTS
    Endpoints,      \* page URLs the bundle can be served from: [scheme, port]
    TokenStrings,   \* token strings the server can return, "" included
    Methods,        \* typed methods of Web
    MaxCalls        \* bound on the calls made

Str(s) == [type |-> "string", val |-> s]
\* a number is kept as its decimal notation
Num(n) == [type |-> "number", val |-> n]
Null   == [type |-> "null", val |-> "null"]
Undef  == [type |-> "undefined", val |-> "undefined"]

\* if (x): the empty string, 0, null and undefined are falsy, objects truthy
Truthy(x) ==
    CASE x.type = "string" -> x.val # ""
      [] x.type = "number" -> x.val # "0"
      [] x.type = "object" -> TRUE
      [] OTHER             -> FALSE

EmptyObject == [type |-> "object", val |-> "{}"]

\* res.token stored as it is
TemplateStringNone(x) == x

\* the template literal `${x}` of Login, LoginSTS and SetAuth
TemplateString(x) == IF x.type = "string" THEN x ELSE Str(x.val)

VARIABLES
    client,         \* the JSONrpc instance: [scheme, port]; scheme "none"
                    \* before construction, "failed" after it threw
    token,          \* localStorage 'token' (a string or null)
    requests,       \* requests posted so far: envelope and headers
    calls           \* calls made so far

vars == <<client, token, requests, calls>>

(***************************************************************************)
(* url.parse: the protocol with its colon, and the port as the string of   *)
(* its digits, or null when the URL has none.                              *)
(***************************************************************************)
ParseUrl(u) ==
    [protocol |-> Str(u.scheme \o ":"),
     port     |-> IF u.port = "none" THEN Null ELSE Str(u.port)]

\* the constructor: scheme and port from the parsed URL, or an error
\* thrown for any protocol but http: and https:
NewClient(u) ==
    LET parsed == ParseUrl(u)
        default(n) == IF parsed.port = Num("0") THEN Num(n) ELSE parsed.port
    IN  CASE parsed.protocol = Str("http:")  -> [scheme |-> "http", port |-> default("80")]
          [] parsed.protocol = Str("https:") -> [scheme |-> "https", port |-> default("443")]
          [] OTHER                           -> [scheme |-> "failed", port |-> Null]

\* web.js: const web = new Web(...) when the bundle loads
Construct(u) ==
    /\ client.scheme = "none"
    /\ client' = NewClient(u)
    /\ UNCHANGED <<token, requests, calls>>

(***************************************************************************)
(* A sign-in stores `${res.token}`; res.token is a string, or undefined   *)
(* when the result has no token.  Logout removes the key.                  *)
(***************************************************************************)
StoreToken(x) ==
    /\ token' = TemplateString(x)
    /\ UNCHANGED <<client, requests, calls>>

Logout ==
    /\ token' = Null
    /\ UNCHANGED <<client, requests, calls>>

\* Web.LoggedIn(): !!storage.getItem('token')
LoggedIn == Truthy(token)

(***************************************************************************)
(* JSONrpc.call(method, {params: args}, token): id 1 when the options have *)
(* none, {} when they carry no params, the namespaced method, and the      *)
(* Authorization header only for a truthy token.                           *)
(***************************************************************************)
HasBearer(tok) == Truthy(tok)

Envelope(m, args, tok) ==
    [id       |-> 1,
     jsonrpc  |-> "2.0",
     params   |-> IF Truthy(args) THEN args ELSE EmptyObject,
     method   |-> <<"Web", m>>,
     bearer   |-> HasBearer(tok),
     loggedIn |-> LoggedIn]

\* makeCall(method, args): args is an object or undefined (no argument)
MakeCall(m, args) ==
    /\ client.scheme \in {"http", "https"}
    /\ calls < MaxCalls
    /\ requests' = requests \cup {Envelope(m, args, token)}
    /\ calls' = calls + 1
    /\ UNCHANGED <<client, token>>

Init ==
    /\ client = [scheme |-> "none", port |-> Null]
    /\ token \in {Null} \cup {Str(s) : s \in TokenStrings}
    /\ requests = {}
    /\ calls = 0

Args == {Undef, EmptyObject, [type |-> "object", val |-> "{...}"]}

Next ==
    \/ \E u \in Endpoints : Construct(u)
    \/ \E x \in {Str(s) : s \in TokenStrings} \cup {Undef} : StoreToken(x)
    \/ Logout
    \/ \E m \in Methods, a \in Args : MakeCall(m, a)

Spec == Init /\ [][Next]_vars

-----------------------------------------------------------------------------
JsValues == {Null, Undef} \cup [type: {"string"}, val: STRING]
              \cup [type: {"number"}, val: STRING] \cup [type: {"object"}, val: STRING]

TypeOK ==
    /\ client \in [scheme: {"none", "failed", "http", "https"}, port: JsValues]
    /\ token \in {Null} \cup [type: {"string"}, val: STRING]
    /\ calls \in 0..MaxCalls
    /\ requests \subseteq [id: Nat, jsonrpc: STRING, params: JsValues,
                           method: STRING \X STRING, bearer: BOOLEAN,
                           loggedIn: BOOLEAN]

=============================================================================
