----------------------------- MODULE HttpRequest -----------------------------
(***************************************************************************)
(* requests.get, post, put and delete of common/ModuleRequests.cc: one     *)
(* call from a script, what libcurl (external) sends for it, and what the  *)
(* callbacks make of the answer, which may be several responses: that of a *)
(* proxy to CONNECT, interim ones, and those of a chain of redirections.   *)
(*                                                                         *)
(* A header line is known by its number; the texts of requests, bodies and *)
(* values stay out.                                                        *)
(***************************************************************************)
EXTENDS Naturals, Sequences, SequencesExt

CONSTANTS
  MaxLines,      (* bound: the header lines of an answer                   *)
  MaxResponses   (* bound: its responses                                   *)

ASSUME BoundsAssumption == MaxLines \in Nat /\ MaxResponses \in Nat

VARIABLES
  call,       (* call, perform, returned or raised                         *)
  request,    (* what request() is called with, and the header lines sent  *)
  responses,  (* the responses so far: final, or why another one follows   *)
  lines,      (* the header lines the callback has seen                    *)
  answer      (* RequestResult                                             *)

requestVars == <<call, request, responses, lines, answer>>

Methods == {"GET", "POST", "PUT", "DELETE"}

(* What a script may pass as data; a list is a list of Python, or an array.*)
Data == {"table", "list", "text", "empty"}

(* Header names as the script may spell them.                              *)
Names == {"Accept", "Content-Type", "content-type"}

NoHeaders == [name \in {} |-> <<>>]

RequestInit ==
  /\ call = "call"
  /\ request = [method |-> "GET", body |-> "none", redirect |-> TRUE, proxy |-> FALSE, sent |-> {}]
  /\ responses = <<>> /\ lines = <<>>
  /\ answer = [success |-> FALSE, errorMessage |-> "", code |-> 0,
               headers |-> NoHeaders, content |-> <<>>]

-----------------------------------------------------------------------------
(* The bindings. *)

(* The url and, to post and put, the data. *)
Required(method) == IF method \in {"POST", "PUT"} THEN 2 ELSE 1

Refused(method, count, isTable) ==
  count < Required(method) \/ (count > Required(method) /\ ~isTable)

Body(method, data, isDataJson) ==
  IF Required(method) = 1 \/ data = "empty" THEN "none"
  ELSE IF isDataJson THEN "json" ELSE "form"

(* A header line of the request and who it is from.                        *)
Line(name, by) == [name |-> name, by |-> by]

(* Mutant: every body is announced as JSON. *)
DefaultsJson(given, body) ==
  (IF "Accept" \in given THEN {} ELSE {Line("Accept", "default")})
  \cup IF body = "none" \/ "Content-Type" \in given THEN {} ELSE {Line("Content-Type", "json")}

(* What is appended to the script's headers, unless find() finds one of    *)
(* that very spelling (Accept stands for the three that every request      *)
(* has).  "Content-Type :", the form's, has a blank before the colon:      *)
(* libcurl does not take it for a Content-Type.                            *)
Defaults(given, body) ==
  (IF "Accept" \in given THEN {} ELSE {Line("Accept", "default")})
  \cup IF body = "none" \/ "Content-Type" \in given THEN {}
       ELSE {Line(IF body = "json" THEN "Content-Type" ELSE "Content-Type ", body)}

(* libcurl's own header for a body: a form, unless a line names the type.  *)
OwnLine(lines_, body) ==
  IF body = "none" \/ \E l \in lines_ : l.name \in {"Content-Type", "content-type"} THEN {}
  ELSE {Line("Content-Type", "form")}

Sent(given, body) ==
  LET lines_ == {Line(name, "script") : name \in given} \cup Defaults(given, body)
  IN  lines_ \cup OwnLine(lines_, body)

(* A call with count parameters of which, after the url and the data, the  *)
(* headers, the proxy and the redirection are the next.                    *)
Call(method, count, data, isDataJson) ==
  /\ call = "call"
  /\ \E isTable \in BOOLEAN :
       IF Refused(method, count, isTable)
       THEN call' = "raised" /\ UNCHANGED request
       ELSE \E given \in IF count > Required(method) THEN SUBSET Names ELSE {{}},
               proxy \in IF count > Required(method) + 1 THEN BOOLEAN ELSE {FALSE},
               redirect \in IF count > Required(method) + 2 THEN BOOLEAN ELSE {TRUE} :
            LET body == Body(method, data, isDataJson) IN
            /\ call' = "perform"
            /\ request' = [method |-> method, body |-> body, redirect |-> redirect,
                           proxy |-> proxy, sent |-> Sent(given, body)]
  /\ UNCHANGED <<responses, lines, answer>>

(* An array is a table in Lua and an object in JavaScript.                 *)
LuaCall(method, count, data) == Call(method, count, data, data \in {"table", "list"})

JavaScriptCall(method, count, data) == Call(method, count, data, data \in {"table", "list"})

(* In Python a list is no dict, and no text: the null pointer that comes   *)
(* of it is made into a string, which throws.                              *)
PythonRefuses(method, data) == Required(method) = 2 /\ data = "list"

PythonCall(method, count, data) ==
  \/ ~PythonRefuses(method, data) /\ Call(method, count, data, data = "table")
  \/ /\ call = "call" /\ PythonRefuses(method, data)
     /\ call' = "raised"
     /\ UNCHANGED <<request, responses, lines, answer>>

-----------------------------------------------------------------------------
(* The answer. *)

(* A status line: it has no ": " and the callback skips it.  libcurl goes  *)
(* on after any response but the final one.                                *)
Respond(kind) ==
  /\ call = "perform"
  /\ Len(responses) < MaxResponses
  /\ responses # <<>> => Last(responses) # "final"
  /\ CASE kind = "connect" -> request.proxy /\ responses = <<>>
       [] kind = "redirect" -> request.redirect
       [] OTHER -> TRUE
  /\ responses' = Append(responses, kind)
  /\ UNCHANGED <<call, request, lines, answer>>

HeaderLines ==
  [name : {"Set-Cookie", "set-cookie", "Other"}, mentions : BOOLEAN] \
    [name : {"Set-Cookie"}, mentions : {FALSE}]

(* Mutant: insert_or_assign(). *)
Assign(headers, name, values) ==
  [n \in DOMAIN headers \cup {name} |-> IF n = name THEN values ELSE headers[n]]

(* emplace(): the first one stays.                                         *)
Emplace(headers, name, values) ==
  IF name \in DOMAIN headers THEN headers
  ELSE [n \in DOMAIN headers \cup {name} |-> IF n = name THEN values ELSE headers[n]]

(* What the header callback does with line i: if Set-Cookie occurs in it,  *)
(* in its name or not, the value is added to the cookies.                  *)
Merged(headers, line, i) ==
  IF ~line.mentions THEN Emplace(headers, line.name, <<i>>)
  ELSE IF "Set-Cookie" \in DOMAIN headers THEN [headers EXCEPT !["Set-Cookie"] = Append(@, i)]
  ELSE Emplace(headers, "Set-Cookie", <<i>>)

(* Of a redirection, a proxy or an interim response only headers reach the *)
(* callbacks.  The final one's may come after its body, too.               *)
ReceiveHeader(line) ==
  /\ call = "perform" /\ responses # <<>>
  /\ Len(lines) < MaxLines
  /\ lines' = Append(lines, [line |-> line, response |-> Len(responses)])
  /\ answer' = [answer EXCEPT !.headers = Merged(@, line, Len(lines'))]
  /\ UNCHANGED <<call, request, responses>>

(* Pieces of one body are not told apart.                                  *)
ReceiveBody ==
  /\ call = "perform" /\ responses # <<>> /\ Last(responses) = "final"
  /\ answer.content = <<>>
  /\ answer' = [answer EXCEPT !.content = <<Len(responses)>>]
  /\ UNCHANGED <<call, request, responses, lines>>

(* curl_easy_perform returns: after the final response with CURLE_OK, and  *)
(* at any time with an error, for which errorMessage stays empty.  The     *)
(* code is that of the last response, a proxy's to CONNECT excepted.       *)
PerformReturn(status) ==
  /\ call = "perform"
  /\ status = "ok" => responses # <<>> /\ Last(responses) = "final"
  /\ call' = "returned"
  /\ answer' = [answer EXCEPT
       !.success = status = "ok",
       !.errorMessage = IF status = "ok" THEN "No error" ELSE @,
       !.code = IF responses # <<>> /\ Last(responses) # "connect" THEN Len(responses) ELSE 0]
  /\ UNCHANGED <<request, responses, lines>>

RequestNext ==
  \/ \E method \in Methods, count \in 0 .. 6, data \in Data :
       \/ LuaCall(method, count, data)
       \/ PythonCall(method, count, data)
       \/ JavaScriptCall(method, count, data)
  \/ \E kind \in {"connect", "interim", "redirect", "final"} : Respond(kind)
  \/ \E line \in HeaderLines : ReceiveHeader(line)
  \/ ReceiveBody
  \/ \E status \in {"ok", "error"} : PerformReturn(status)

RequestSpec == RequestInit /\ [][RequestNext]_requestVars

-----------------------------------------------------------------------------
(* Properties. *)

(* The request's type as the server reads it: a body has one, JSON for a   *)
(* table and a form for a text, and nothing else has one, whatever else    *)
(* the script has set.  For a text this is libcurl's doing: the default of *)
(* line 23 is misspelt.  Two lines, of which the server may take either,   *)
(* go out only if the script spells the name otherwise than line 18.       *)
RequestTyped ==
  call = "perform" =>
    LET types == {l \in request.sent : l.name \in {"Content-Type", "content-type"}}
        given == {l \in types : l.by = "script"}
    IN  IF given = {} THEN {l.by : l \in types} = {request.body} \ {"none"}
        ELSE types = given \/ (request.body = "json" /\ {l.name : l \in given} = {"content-type"})

(* A script sees every cookie set on the way, in order, under the exact    *)
(* name Set-Cookie only; what merely mentions the name is among them.      *)
CookiesKept ==
  LET cookies == IF "Set-Cookie" \in DOMAIN answer.headers
                 THEN answer.headers["Set-Cookie"] ELSE <<>>
  IN  /\ Range(cookies) = {i \in DOMAIN lines : lines[i].line.mentions}
      /\ \A i, j \in DOMAIN cookies : i < j => cookies[i] < cookies[j]
      /\ "Set-Cookie" \in DOMAIN answer.headers => cookies # <<>>

(* Any other header is the first response's that has it, although content  *)
(* and code are the last one's; without redirection, proxy and interim     *)
(* responses they are all of one response.                                 *)
OthersOfFirst ==
  \A name \in DOMAIN answer.headers \ {"Set-Cookie"} :
    LET i == answer.headers[name][1] IN
    /\ lines[i].line.name = name /\ ~lines[i].line.mentions
    /\ \A j \in 1 .. (i - 1) : lines[j].line.name = name => lines[j].line.mentions

(* What the callbacks of lines 54 and 68 have merged when request() ends.  *)
AnswerMerged ==
  call = "returned" =>
    /\ CookiesKept /\ OthersOfFirst
    /\ answer.success => answer.code = Len(responses) /\ Last(responses) = "final"
    /\ \A i \in DOMAIN answer.content : answer.content[i] = Len(responses)
=============================================================================
