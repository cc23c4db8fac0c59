------------------------------- MODULE RilShim -------------------------------
(***************************************************************************)
(* The shim between libril and the vendor's RIL (src/ril/libsecril-shim/   *)
(* secril-shim.c).  RIL_Init() loads the vendor's library and gives it its *)
(* own callbacks; onRequestShim() passes a request on, changes it or       *)
(* answers it itself; onRequestCompleteShim() and                          *)
(* onUnsolicitedResponseShim() bring what the vendor says, in the formats  *)
(* of old versions of ril.h, into the present ones.                        *)
(*                                                                         *)
(* libril frees a token when it gets its answer, and takes a response by   *)
(* the length and the layout it expects.                                   *)
(***************************************************************************)
EXTENDS Integers, Sequences

CONSTANTS
  Tokens,      \* the requests libril can have under way
  Clocks,      \* what the clock may say, in units of 2^24 s (89 is in 2017)
  Tops,        \* the top byte of MAX_TIMEOUT in the vendor's libraries there are
  MaxCalls     \* bound: data calls in a list

ASSUME CallBound == MaxCalls \in Nat
ASSUME ClockRange == Clocks \subseteq 0..127
ASSUME TopRange == Tops \subseteq 0..127

VARIABLES
  lib,      \* RIL_Init(): at, the variant, the arguments passed on, whether the vendor's
            \* library has the symbol MAX_TIMEOUT, its top byte on disk and in memory,
            \* whether rilEnv is set, clock
  asked,    \* per token: the request libril waits for, or NoRequest
  vendor,   \* per token: the request the vendor has, or NoRequest
  heard,    \* what libril got last
  stray     \* libril got an answer for a token it does not wait for, or a callback
            \* came before rilEnv was set

shimVars == << lib, asked, vendor, heard, stray >>

NoRequest == "none"
Nothing == [form |-> "none", len |-> 0]

\* Requests, those that are treated alike being one.
Faked == {"STK_SERVICE_IS_RUNNING", "SIM_OPEN_CHANNEL", "GET_RADIO_CAPABILITY", "POST_2_3"}
DataCalls == {"SETUP_DATA_CALL", "DATA_CALL_LIST", "GET_PREFERRED_NETWORK_TYPE"}
Requests == Faked \cup DataCalls \cup
  {"SETUP_DATA_CALL_NULL", "SEND_SMS", "SEND_SMS_EXPECT_MORE", "GET_SIM_STATUS",
   "LAST_CALL_FAIL_CAUSE", "SIGNAL_STRENGTH", "UNLISTED", "OTHER"}

\* What a library of Android 2.3 does not know: the requests above 103.  The shim's list
\* of those that "were introduced post 2.3" leaves out three, which are "UNLISTED": 107
\* STK_SEND_ENVELOPE_WITH_STATUS, 136 and 137, the carrier restrictions.
Newer == {"SIM_OPEN_CHANNEL", "GET_RADIO_CAPABILITY", "POST_2_3", "UNLISTED"}

\* The sizes of the structures, of which a response has one or more.
Size == [ int |-> 4, global |-> 4, call3 |-> 12, call4 |-> 20, call6 |-> 36, card5 |-> 276,
          card6 |-> 280, signal5 |-> 28, signalFixed |-> 28, nitz |-> 23, nitzExtra |-> 30 ]
Forms == DOMAIN Size

\* n structures of a form.
Of(form, n) == [form |-> form, len |-> n * Size[form]]

\* What a phone's vendor library answers: in the old layouts, or nothing with an error.
VendorAnswers(request) ==
  CASE request = "SETUP_DATA_CALL"            -> {Of("call3", 1)}
    [] request = "DATA_CALL_LIST"             -> {Of("call4", n) : n \in 0..MaxCalls}
    [] request = "GET_PREFERRED_NETWORK_TYPE" -> {Of("int", 1), Of("global", 1)}
    [] request = "GET_SIM_STATUS"             -> {Of("card5", 1), Of("card6", 1)}
    [] request = "LAST_CALL_FAIL_CAUSE"       -> {Of("int", 1), Of("int", 2)}
    [] request = "SIGNAL_STRENGTH"            -> {Of("signal5", 1)}
    [] request = "UNLISTED"                   -> {}
    [] OTHER                                  -> {Nothing, Of("int", 1)}

-----------------------------------------------------------------------------
(* RIL_Init().                                                             *)

\* rild's command lines: words for the vendor, with "-c" and its number between or not.
Words == << "rild", "-d", "tty" >>
CommandLines ==
  {SubSeq(Words, 1, k) \o << "-c", "0" >> \o SubSeq(Words, k + 1, 3) : k \in 1..3}
    \cup {Words, Words \o << "-c" >>}

InitShim ==
  /\ lib \in [at : {"start"}, variant : {"init"}, args : CommandLines, found : BOOLEAN,
              disk : Tops, top : Tops, env : {FALSE}, clock : Clocks]
  /\ lib.top = lib.disk
  /\ asked = [t \in Tokens |-> NoRequest] /\ vendor = [t \in Tokens |-> NoRequest]
  /\ heard = Nothing /\ stray = FALSE

ShimFails == lib' = [lib EXCEPT !.at = "failed"] /\ UNCHANGED << asked, vendor, heard, stray >>

\* Definitions named X_Slip are X with a plausible mistake; no action uses them.

\* The variant by the property ro.product.device, rilEnv, and dlopen().
OpenVendor ==
  /\ lib.at = "start"
  /\ \E v \in {"aries", "galaxys4g"} : lib' = [lib EXCEPT !.at = "open", !.variant = v, !.env = TRUE]
  /\ UNCHANGED << asked, vendor, heard, stray >>
OpenFails == lib.at = "start" /\ ShimFails

\* Removes "-c" and the word after it; rild passes it once at most.
Stripped(args) ==
  IF \E i \in 1..(Len(args) - 1) : args[i] = "-c"
  THEN LET i == CHOOSE j \in 1..(Len(args) - 1) : args[j] = "-c"
       IN  SubSeq(args, 1, i - 1) \o SubSeq(args, i + 2, Len(args))
  ELSE args

\* The library's memory is left alone when the symbol is not found, or when its top byte
\* is another one than that of 0x7FFFFFFF.
patchMem(l) == IF l.found /\ l.top = 127 THEN [l EXCEPT !.top = 31] ELSE l

\* dlsym(), and the vendor's RIL_Init() begins.
StartVendor ==
  /\ lib.at = "open"
  /\ lib' = [patchMem(lib) EXCEPT !.at = "starting", !.args = Stripped(@)]
  /\ UNCHANGED << asked, vendor, heard, stray >>
StartFails == lib.at \in {"open", "starting"} /\ ShimFails

\* From here on nobody looks at the arguments.
VendorStarted ==
  /\ lib.at = "starting" /\ lib' = [lib EXCEPT !.at = "up", !.args = << >>]
  /\ UNCHANGED << asked, vendor, heard, stray >>

-----------------------------------------------------------------------------
(* Requests and their answers.                                             *)

\* The name servers of a data call, from the properties of those that the vendor has
\* stored: strcmp() is not zero when a server is there.
Servers(stored) ==
  CASE {"dns1", "dns2"} \subseteq stored -> {}
    [] stored = {"dns1"}                 -> stored \cap {"dns2"}
    [] stored = {"dns2"}                 -> stored \cap {"dns1"}
    [] OTHER                             -> stored

\* What libril gets with r: data calls in the new layout come with name servers.
Hear(r) ==
  IF r.form = "call6"
  THEN \E s \in SUBSET {"dns1", "dns2"} :
         heard' = [form |-> r.form, len |-> r.len, stored |-> s, told |-> Servers(s)]
  ELSE heard' = r

\* OnRequestComplete() of libril, which frees the token.
Complete(t, r) ==
  /\ asked' = [asked EXCEPT ![t] = NoRequest] /\ Hear(r)
  /\ stray' = (stray \/ asked[t] = NoRequest)

\* The answers that the shim makes up.
Fake_Slip(t, request) == UNCHANGED << asked, heard, stray >>
Fake(t, request) == Complete(t, IF request = "GET_RADIO_CAPABILITY" THEN Of("int", 1) ELSE Nothing)

\* The request itself; a data call without data falls into the case below it.
onRequestShim_Slip(t, request) ==
  /\ vendor' = [vendor EXCEPT ![t] = request]
  /\ IF request \in Faked THEN Fake(t, request) ELSE UNCHANGED << asked, heard, stray >>
onRequestShim(t, request) ==
  IF request \in Faked \cup {"SETUP_DATA_CALL_NULL"}
  THEN Fake(t, request) /\ UNCHANGED vendor
  ELSE /\ vendor' = [vendor EXCEPT ![t] = IF request = "SEND_SMS_EXPECT_MORE" THEN "SEND_SMS" ELSE request]
       /\ UNCHANGED << asked, heard, stray >>

\* libril sends a request: first it waits for it, then onRequestShim() runs.
Request ==
  /\ lib.at = "up"
  /\ \E t \in Tokens, request \in Requests :
       /\ asked[t] = NoRequest /\ vendor[t] = NoRequest
       /\ asked' = [asked EXCEPT ![t] = request]
       /\ UNCHANGED << lib, vendor, heard, stray >>

Dispatch(t) ==
  /\ asked[t] # NoRequest /\ vendor[t] = NoRequest
  /\ onRequestShim(t, asked[t])
  /\ UNCHANGED lib

fixupSignalStrength(r) == IF r.len = Size["signal5"] THEN [r EXCEPT !.form = "signalFixed"] ELSE r

\* One v6 structure from the strings of the v3 one; anything else as it is.
fixupSetupDataCall(ok, r) == IF ok /\ r.len = Size["call3"] THEN Of("call6", 1) ELSE r

\* A v6 structure for each v4 one.
fixupDataCallList(ok, r) ==
  IF ok /\ r.len # 0 /\ r.len % Size["call4"] = 0 THEN Of("call6", r.len \div Size["call4"]) ELSE r

\* The global mode, which falls into the fix-up of data calls when it is another mode.
fixupNetworkType(ok, r) == IF r.form = "global" THEN Of("int", 1) ELSE fixupSetupDataCall(ok, r)

\* By the request that the token was made for.
Fixed_Slip(request, ok, r) == r
Fixed(request, ok, r) ==
  CASE request = "GET_SIM_STATUS" -> IF r.len = Size["card5"] THEN Of("card6", 1) ELSE r
    [] request = "LAST_CALL_FAIL_CAUSE" -> IF r.len > Size["int"] THEN Of("int", 1) ELSE r
    [] request = "SIGNAL_STRENGTH" -> IF r.len >= Size["signal5"] THEN fixupSignalStrength(r) ELSE r
    [] request = "GET_PREFERRED_NETWORK_TYPE" -> fixupNetworkType(ok, r)
    [] request = "SETUP_DATA_CALL" -> fixupSetupDataCall(ok, r)
    [] request = "DATA_CALL_LIST" -> fixupDataCallList(ok, r)
    [] OTHER -> r

\* The vendor answers what it has, in any order, or fails it.
onRequestComplete(t) ==
  /\ vendor[t] # NoRequest /\ vendor' = [vendor EXCEPT ![t] = NoRequest]
  /\ \/ \E r \in VendorAnswers(vendor[t]) : Complete(t, Fixed(asked[t], TRUE, r))
     \/ Complete(t, Fixed(asked[t], FALSE, Nothing))
  /\ UNCHANGED lib

\* What the vendor says unasked, from the beginning of its RIL_Init() on.  Its own
\* messages, above 11000, go no further.
Unsolicited(r) ==
  CASE r.form = "nitzExtra" -> Of("nitz", 1)
    [] r.form = "signal5"   -> fixupSignalStrength(r)
    [] r.form = "call4"     -> fixupDataCallList(TRUE, r)
    [] OTHER                -> r

onUnsolicitedResponse ==
  /\ lib.at \in {"starting", "up"}
  /\ \E r \in {Of(f, 1) : f \in {"nitz", "nitzExtra", "signal5", "int"}}
                \cup {Of("call4", n) : n \in 0..MaxCalls} : Hear(Unsolicited(r))
  /\ stray' = (stray \/ ~ lib.env)
  /\ UNCHANGED << lib, asked, vendor >>

\* The shim runs, or the vendor answers a request that it knows.
Answering(t) == Dispatch(t) \/ (vendor[t] \notin Newer /\ onRequestComplete(t))

NextShim ==
  \/ OpenVendor \/ OpenFails \/ StartVendor \/ StartFails \/ VendorStarted
  \/ Request \/ onUnsolicitedResponse
  \/ \E t \in Tokens : Dispatch(t) \/ onRequestComplete(t)

\* onRequest() runs, and the vendor answers what it has and knows; what it does with a
\* request it does not know is anyone's guess.
Fairness == \A t \in Tokens : WF_shimVars(Answering(t))
SpecShim == InitShim /\ [][NextShim]_shimVars /\ Fairness
-----------------------------------------------------------------------------
\* The length of a response is that of its structures, whatever was fixed up.
ShimTypes ==
  /\ lib.at \in {"start", "open", "starting", "up", "failed"}
  /\ lib.variant \in {"init", "aries", "galaxys4g"} /\ lib.disk \in Tops /\ lib.top \in {31, lib.disk}
  /\ asked \in [Tokens -> Requests \cup {NoRequest}] /\ vendor \in [Tokens -> Requests \cup {NoRequest}]
  /\ heard.form \in Forms \cup {"none"} /\ stray \in BOOLEAN
  /\ heard.len % (IF heard.form = "none" THEN 1 ELSE Size[heard.form]) = 0

\* Every request is answered once: libril never gets an answer for a token it has
\* freed, although the shim answers some requests itself and hands over others, and
\* nothing the vendor says while it is being initialised meets an unset rilEnv.
AnsweredOnce == ~ stray

\* What the vendor holds, libril waits for, under the request the answer will be fixed
\* up for; and it is a request that a library of Android 2.3 knows, a data call with its
\* data, or one of the three that the shim's list leaves out.
VendorKnows ==
  \A t \in Tokens : vendor[t] # NoRequest =>
    /\ vendor[t] \notin (Newer \ {"UNLISTED"}) \cup {"STK_SERVICE_IS_RUNNING", "SETUP_DATA_CALL_NULL"}
    /\ vendor[t] # "SEND_SMS_EXPECT_MORE"
    /\ asked[t] = IF vendor[t] = "SEND_SMS" /\ asked[t] # "SEND_SMS" THEN "SEND_SMS_EXPECT_MORE" ELSE vendor[t]

\* Requests are handed over one to one: each is answered once, and what the vendor
\* holds it knows, but for the unlisted three, and libril waits for.
HandedOver == ShimTypes /\ AnsweredOnce /\ VendorKnows

\* Refuted.  The vendor's library of Android 2.3 gets no newer request.
OnlyWhatItKnows == \A t \in Tokens : vendor[t] \notin Newer

\* No old layout gets through to libril, whether it was asked for or not and however
\* long the list is, although what a response holds is told by its request and its
\* length alone and network types pass through the fix-up of data calls.
NewLayout ==
  heard.form \in {"call3", "call4", "card5", "signal5", "global", "nitzExtra"} => heard.len = 0

\* The command line that the vendor's library gets is rild's without "-c" and its
\* number ("it just barfs instead").
ArgumentsUnderstood ==
  lib.at = "starting" => lib.args \in {Words, Words \o << "-c" >>}

\* A library that patchMem() knows: it has the symbol, and 0x7FFFFFFF there.
Patchable == lib.found /\ lib.disk = 127

\* A wait for MAX_TIMEOUT, added to the clock, fits the 32 bits of time_t in a library
\* that patchMem() knows: "a maximum time value can cause an overflow [...] if unpatched"
\* (comment in patchMem()).  So it does patched, from 0x60000000 s on, 14 January 2021.
TimeoutFits ==
  lib.at \in {"starting", "up"} /\ Patchable /\ lib.clock < 96 => lib.clock + lib.top < 127

\* A library that it does not know starts and runs with the MAX_TIMEOUT it came with.
OthersLeftAlone == ~ Patchable => lib.top = lib.disk

\* Refuted.  A wait for MAX_TIMEOUT fits in every library that was started.
EveryTimeoutFits ==
  lib.at \in {"starting", "up"} /\ lib.clock < 96 => lib.clock + lib.top < 127

\* Each side understands the other: libril the layouts it gets, the vendor its
\* arguments, and the waits of a patched library fit its clock.
Understood == NewLayout /\ ArgumentsUnderstood /\ TimeoutFits /\ OthersLeftAlone

\* A request is answered in the end when the vendor answers what it has and knows.
RequestAnswered ==
  \A t \in Tokens : asked[t] \notin {NoRequest, "UNLISTED"} ~> asked[t] = NoRequest

\* Refuted.  "Samsung RIL stores DNS and gateway in props" (comment in
\* fixupSetupDataCallRequest()): the servers stored there are reported.
DnsReported == heard.form = "call6" => heard.told = heard.stored
=============================================================================
