---------------------------- MODULE WebConsole ----------------------------
(***************************************************************************)
(* The web console in one browser tab and the admin server it talks to.    *)
(* The console is the React application of static/static/js (pages Index,  *)
(* AccessList and Rate with their dialogs); the server is the part of      *)
(* cheryl/http_server.go that answers it.                                  *)
(*                                                                         *)
(* Every axios call is a request in flight: the server processes it once,  *)
(* its answer is delivered later, in any order with others, or it fails    *)
(* before or after it was processed.  A component that is unmounted        *)
(* ignores its answers; what it had posted may still be processed.         *)
(*                                                                         *)
(* A page shows a list (patterns, blocked addresses, paths with a limiter) *)
(* as of an answer.  Below a pattern the tree shows nothing: wrapProxyInfo *)
(* reads data[key].length, and the server sends a record; so no dialog for *)
(* a host is reachable and deleteHost never called.                        *)
(***************************************************************************)
EXTENDS QpsLimiter, FiniteSets, Sequences

CONSTANTS
    Items,        \* patterns and addresses
    Methods,      \* paths that may have a limiter
    Typed,        \* values an admin types in the dialog for limits
    Earlier,      \* values that were confirmed before the page was opened
    MaxRequests,  \* bound: requests sent by the time a page has sent its last
    None

ASSUME WebConsoleAssumption ==
    /\ Items \cap Methods = {} /\ None \notin Items \cup Methods
    /\ Typed \cup Earlier \subseteq Form
    /\ MaxRequests \in [{"index", "acl", "rate"} -> Nat]

VARIABLES
    page,     \* the page that is mounted
    net,      \* requests in flight, by number
    sent,     \* how many were sent
    visible, loading,   \* visible and confirmLoading of the dialogs
    ready,    \* Index: the node's info has arrived and the content is shown
    bubble,   \* Index: the pattern for which the bubble is open, if any
    target,   \* the pattern or path the dialog was opened for
    form,     \* SetRateModal: its fields
    shown,    \* the list the page shows
    server,   \* the list of this page as the server has it
    limits,   \* Rate: the limiters of the server
    last,     \* history: the latest list request of this page
    current,  \* history: the list request whose answer is shown
    silent,   \* history: the list has changed and no refresh will follow
    asked,    \* history: the latest request of the open dialog for its fields
    dropped   \* history: a submission of SetRateModal has failed

dialogVars == <<visible, loading, bubble, target, form, asked, dropped>>
pageVars == <<page, ready, shown, last, current>>
serverVars == <<server, limits, silent>>
vars == <<net, sent, dialogVars, pageVars, serverVars>>

Pages == {"index", "acl", "rate"}
Dialogs == {"addProxy", "addHost", "insert", "delete", "setRate"}
PageOf == [d \in Dialogs |-> CASE d \in {"addProxy", "addHost"} -> "index"
                               [] d \in {"insert", "delete"}    -> "acl"
                               [] d = "setRate"                 -> "rate"]
ItemsOf(p) == IF p = "rate" THEN Methods ELSE Items

\* The dialog for limits.  typ is unset until the first answer, which makes it
\* "qps"; the admin may choose "concurrent".  History, while they are as an
\* answer gave them: ask is its request, of the path, seen the limiter then.
Fields == [typ : {"unset", "qps", "concurrent"}, val : Form,
           ask : Nat, of : Methods \cup {None}, seen : Limiter]

\* Empty inputs: parseInt gives NaN, JSON null and the decoder 0.
EmptyFields ==
    [typ |-> "unset", val |-> [speed |-> 0, volumn |-> 0, timeout |-> 0],
     ask |-> 0, of |-> None, seen |-> NewQpsRateLimiter]

Posts == {"add", "remove", "addHost", "limiter"}

\* from is the dialog that sent it, a row of the table, the bubble or the page.
Request ==
    [kind : {"info", "list", "methodInfo"} \cup Posts, page : Pages,
     from : Dialogs \cup {"row", "bubble", "page"}, item : Items \cup Methods \cup {None},
     fields : Fields, own : BOOLEAN, mounted : BOOLEAN,
     answered : BOOLEAN, ok : BOOLEAN, list : SUBSET (Items \cup Methods)]

NewRequest(kind, from, item) ==
    [kind |-> kind, page |-> page, from |-> from, item |-> item, fields |-> EmptyFields,
     own |-> FALSE, mounted |-> TRUE, answered |-> FALSE, ok |-> FALSE, list |-> {}]

TypeOK ==
    /\ page \in Pages
    /\ sent \in Nat
    /\ DOMAIN net \subseteq 1 .. sent /\ \A i \in DOMAIN net : net[i] \in Request
    /\ visible \in [Dialogs -> BOOLEAN] /\ loading \in [Dialogs -> BOOLEAN]
    /\ ready \in BOOLEAN /\ silent \in BOOLEAN /\ dropped \in BOOLEAN
    /\ bubble \subseteq Items
    /\ target \in Items \cup Methods \cup {None} /\ form \in Fields
    /\ shown \subseteq ItemsOf(page)
    /\ server \subseteq ItemsOf(page)
    /\ limits \in [Methods -> Limiter]
    /\ last \in 0 .. sent /\ current \in 0 .. sent /\ asked \in 0 .. sent

-----------------------------------------------------------------------------
(***************************************************************************)
(* axios.  Send leaves the requests in n in flight and adds the ones of    *)
(* the sequence rs.                                                        *)
(***************************************************************************)
Send(n, rs) ==
    /\ sent + Len(rs) <= MaxRequests[rs[1].page]
    /\ sent' = sent + Len(rs)
    /\ net' = [i \in DOMAIN n \cup (sent + 1 .. sent') |-> IF i <= sent THEN n[i] ELSE rs[i - sent]]

Without(i) == [j \in DOMAIN net \ {i} |-> net[j]]

\* getNodeInfo and getProxyInfo; getAclList; getMethods.
MountRequests(p) ==
    LET list == [NewRequest("list", "page", None) EXCEPT !.page = p]
    IN  IF p = "index" THEN <<[list EXCEPT !.kind = "info"], list>> ELSE <<list>>

\* The limiters there may be, as far as the page depends on them.
LimitsOf(p) ==
    [Methods -> {NewQpsRateLimiter} \cup
                  {SetRateLimiter(v) : v \in {w \in Earlier : p = "rate"}}]

\* What a component holds when it is mounted.
Mounted(p) ==
    /\ page' = p
    /\ ready' = FALSE /\ shown' = {} /\ last' = sent' /\ current' = 0 /\ silent' = FALSE
    /\ visible' = [d \in Dialogs |-> FALSE] /\ loading' = [d \in Dialogs |-> FALSE]
    /\ bubble' = {} /\ target' = None /\ form' = EmptyFields /\ asked' = 0 /\ dropped' = FALSE

Init ==
    /\ page \in Pages
    /\ net = MountRequests(page) /\ sent = Len(net)
    /\ ready = FALSE /\ shown = {} /\ last = sent /\ current = 0 /\ silent = FALSE
    /\ visible = [d \in Dialogs |-> FALSE] /\ loading = [d \in Dialogs |-> FALSE]
    /\ bubble = {} /\ target = None /\ form = EmptyFields /\ asked = 0 /\ dropped = FALSE
    /\ server \in SUBSET ItemsOf(page)
    /\ limits \in LimitsOf(page)

\* Mutant: the page that is left still takes its answers.
Navigate_Listening(p) ==
    /\ p # page
    /\ Send([i \in {j \in DOMAIN net : net[j].kind = "list"} |-> net[i]], MountRequests(p))
    /\ Mounted(p)
    /\ server' \in SUBSET ItemsOf(p)
    /\ limits' \in LimitsOf(p)

\* Another route: the page is unmounted, the new one mounted.  A request that
\* is not yet processed may still be; the answers no longer matter.  Nothing was
\* known of the new page's list and limiters, so they are any.
Navigate(p) ==
    LET posted == {i \in DOMAIN net : net[i].kind \in Posts /\ ~net[i].answered}
    IN  /\ p # page
        /\ Send([i \in posted |-> [net[i] EXCEPT !.mounted = FALSE]], MountRequests(p))
        /\ Mounted(p)
        /\ server' \in SUBSET ItemsOf(p)
        /\ limits' \in LimitsOf(p)

-----------------------------------------------------------------------------
(***************************************************************************)
(* The admin at the page.  The mask of an open dialog covers the rest.     *)
(***************************************************************************)
Unmasked == \A d \in Dialogs : ~visible[d]

\* showModal of AddProxyModal, AccessControlInsertModal and ...DeleteModal.
ShowModal(d) ==
    /\ d \in {"addProxy", "insert", "delete"} /\ page = PageOf[d] /\ Unmasked
    /\ d = "addProxy" => ready
    /\ visible' = [visible EXCEPT ![d] = TRUE]
    /\ UNCHANGED <<net, sent, loading, bubble, target, form, asked, dropped, pageVars, serverVars>>

\* proxyClick, a right click on a pattern; and the bubble's own close.
ProxyClick(x) ==
    /\ page = "index" /\ ready /\ Unmasked /\ x \in shown
    /\ bubble' = {x}
    /\ UNCHANGED <<net, sent, visible, loading, target, form, asked, dropped, pageVars, serverVars>>

CloseBubble ==
    /\ bubble # {} /\ Unmasked
    /\ bubble' = {}
    /\ UNCHANGED <<net, sent, visible, loading, target, form, asked, dropped, pageVars, serverVars>>

ShowAddHost(x) ==
    /\ x \in bubble /\ Unmasked
    /\ visible' = [visible EXCEPT !["addHost"] = TRUE]
    /\ target' = x
    /\ UNCHANGED <<net, sent, loading, bubble, form, asked, dropped, pageVars, serverVars>>

\* showModal of SetRateModal: the fields keep their values until the answer.
ShowSetRate(m) ==
    /\ page = "rate" /\ Unmasked /\ m \in shown
    /\ visible' = [visible EXCEPT !["setRate"] = TRUE]
    /\ target' = m
    /\ Send(net, <<NewRequest("methodInfo", "page", m)>>) /\ asked' = sent'
    /\ UNCHANGED <<loading, bubble, form, dropped, pageVars, serverVars>>

\* setSpeed, setVolumn, setTimeout, chooseType.
Edit(typ, val) ==
    /\ visible["setRate"]
    /\ form' = [EmptyFields EXCEPT !.typ = typ, !.val = val]
    /\ UNCHANGED <<net, sent, visible, loading, bubble, target, asked, dropped, pageVars, serverVars>>

\* Mutant: cancelling makes the dialog usable again.
HandleCancel_StopsLoading(d) ==
    /\ visible[d]
    /\ visible' = [visible EXCEPT ![d] = FALSE]
    /\ loading' = [loading EXCEPT ![d] = FALSE]
    /\ UNCHANGED <<net, sent, bubble, target, form, asked, dropped, pageVars, serverVars>>

HandleCancel(d) ==
    /\ visible[d]
    /\ visible' = [visible EXCEPT ![d] = FALSE]
    /\ UNCHANGED <<net, sent, loading, bubble, target, form, asked, dropped, pageVars, serverVars>>

\* The request of handleOk; x is what was typed.
Submission(d, x) ==
    CASE d \in {"addProxy", "insert"} -> NewRequest("add", d, x)
      [] d = "delete"                 -> NewRequest("remove", d, x)
      [] d = "addHost"                -> NewRequest("addHost", d, target)
      [] d = "setRate"                -> [NewRequest("limiter", d, target) EXCEPT
                                            !.fields = form, !.own = (form.ask = asked)]

\* handleOk: the button does nothing while it shows confirmLoading (antd).
HandleOk(d, x) ==
    /\ visible[d] /\ ~loading[d]
    /\ loading' = [loading EXCEPT ![d] = TRUE]
    /\ Send(net, <<Submission(d, x)>>)
    /\ UNCHANGED <<visible, bubble, target, form, asked, dropped, pageVars, serverVars>>

\* confirm of a table row, and deleteProxy of the bubble: nothing is disabled.
DeleteRow(x) ==
    /\ page = "acl" /\ Unmasked /\ x \in shown
    /\ Send(net, <<NewRequest("remove", "row", x)>>)
    /\ UNCHANGED <<dialogVars, pageVars, serverVars>>

DeleteProxy(x) ==
    /\ x \in bubble /\ Unmasked
    /\ Send(net, <<NewRequest("remove", "bubble", x)>>)
    /\ UNCHANGED <<dialogVars, pageVars, serverVars>>

-----------------------------------------------------------------------------
(***************************************************************************)
(* The admin server.  Answer(i, r): request i is answered by r, if anybody *)
(* still listens.                                                          *)
(***************************************************************************)
Answer(i, r) ==
    /\ net' = IF r.mounted THEN [net EXCEPT ![i] = [r EXCEPT !.answered = TRUE]] ELSE Without(i)
    /\ UNCHANGED <<sent, dialogVars, pageVars>>

\* doGetInfo, doGetProxy, doGetAccessControlList, doGetMethods.
ServeList(i) ==
    /\ net[i].kind \in {"info", "list"} /\ ~net[i].answered
    /\ Answer(i, [net[i] EXCEPT !.ok = TRUE, !.list = server])
    /\ silent' = (silent /\ i # last)
    /\ UNCHANGED <<server, limits>>

\* doGetMehtodLimiter: an answer without a method if there is no limiter.
ServeMethodInfo(i) ==
    LET m == net[i].item
    IN  /\ net[i].kind = "methodInfo" /\ ~net[i].answered
        /\ \E v \in MethodInfo(limits[m]) :
              Answer(i, [net[i] EXCEPT !.ok = m \in server, !.fields =
                  [typ |-> "qps", val |-> v, ask |-> i, of |-> m,
                   seen |-> limits[m]]])
        /\ UNCHANGED serverVars

\* doAddProxy answers 200 whatever becomes of the proxy, unless it is not
\* allowed; doHandleAcl, doRemoveProxy and doAddHost change their node first
\* and answer 500 if the entry cannot be committed.
Outcomes(r, list) ==
    {[ok |-> FALSE, list |-> list]} \cup
    CASE r.kind = "add" /\ r.page = "index" ->
            {[ok |-> TRUE, list |-> list], [ok |-> TRUE, list |-> list \cup {r.item}]}
      [] r.kind = "add" /\ r.page # "index" ->
            {[ok |-> b, list |-> list \cup {r.item}] : b \in BOOLEAN}
      [] r.kind = "remove" ->
            {[ok |-> b, list |-> list \ {r.item}] : b \in {c \in BOOLEAN : r.item \in list}}
      [] r.kind = "addHost" ->
            {[ok |-> r.item \in list, list |-> list]}

ServeChange(i) ==
    LET r == net[i]
    IN  /\ r.kind \in {"add", "remove", "addHost"} /\ ~r.answered
        /\ IF r.page = page
           THEN \E o \in Outcomes(r, server) :
                   /\ server' = o.list
                   /\ Answer(i, [r EXCEPT !.ok = o.ok])
                   /\ silent' = (silent \/ (server' # server /\ ~(r.mounted /\ o.ok)))
           ELSE Answer(i, r) /\ UNCHANGED <<server, silent>>
        /\ UNCHANGED limits

\* doSetRateLimiter: refused, also for a type without a factory and a speed
\* that is out of the decoder's range; or the limiter is replaced.
ServeLimiter(i) ==
    LET r == net[i]
        m == r.item
    IN  /\ r.kind = "limiter" /\ ~r.answered
        /\ \/ Answer(i, [r EXCEPT !.ok = FALSE]) /\ UNCHANGED limits
           \/ /\ page = "rate" /\ m \in server
              /\ r.fields.typ = "qps" /\ r.fields.val.speed # HugeSpeed
              /\ limits' = [limits EXCEPT ![m] = SetRateLimiter(r.fields.val)]
              /\ \E b \in BOOLEAN : Answer(i, [r EXCEPT !.ok = b])
        /\ UNCHANGED <<server, silent>>

\* Another console or the raft log adds an entry or removes one.  (Paths come
\* with first requests too; one that came later is not on the page, so here they
\* only go, with their limiters.)
Elsewhere(x) ==
    /\ server' = IF x \in server THEN server \ {x} ELSE server \cup {x}
    /\ x \in Methods => x \in server
    /\ limits' = IF x \in Methods THEN [limits EXCEPT ![x] = NewQpsRateLimiter] ELSE limits
    /\ silent' = TRUE
    /\ UNCHANGED <<net, sent, dialogVars, pageVars>>

-----------------------------------------------------------------------------
(***************************************************************************)
(* The answers.                                                            *)
(***************************************************************************)
Answered(i, kinds) == net[i].kind \in kinds /\ net[i].answered

DeliverInfo(i) ==
    /\ Answered(i, {"info"})
    /\ ready' = TRUE
    /\ net' = Without(i)
    /\ UNCHANGED <<sent, page, shown, last, current, dialogVars, serverVars>>

\* wrapProxyInfo, setAclList, createCollapseElement.
DeliverList(i) ==
    /\ Answered(i, {"list"})
    /\ shown' = net[i].list /\ current' = i
    /\ net' = Without(i)
    /\ UNCHANGED <<sent, page, ready, last, dialogVars, serverVars>>

\* Without a method the callback ends in a TypeError.
DeliverMethodInfo(i) ==
    /\ Answered(i, {"methodInfo"})
    /\ form' = IF net[i].ok THEN net[i].fields ELSE form
    /\ net' = Without(i)
    /\ UNCHANGED <<sent, visible, loading, bubble, target, asked, dropped, pageVars, serverVars>>

\* Hides the dialog and, in all but AddHostModal, makes its button usable.
Closed(d) ==
    /\ visible' = IF d \in Dialogs THEN [visible EXCEPT ![d] = FALSE] ELSE visible
    /\ loading' = IF d \in Dialogs \ {"addHost"} THEN [loading EXCEPT ![d] = FALSE] ELSE loading

\* Mutant: the page is refreshed only by the dialogs, not by a table row.
Refreshes_NotRow(r) == (r.ok /\ r.from # "row") \/ r.kind = "addHost"

\* getProxyInfo, getAclList: after a success; AddHostModal after any answer.
Refreshes(r) == r.ok \/ r.kind = "addHost"

DeliverChange(i) ==
    LET r == net[i]
    IN  /\ Answered(i, {"add", "remove", "addHost"})
        /\ Closed(r.from)
        /\ bubble' = IF r.from \in {"addHost", "bubble"} THEN {} ELSE bubble
        /\ IF Refreshes(r)
           THEN Send(Without(i), <<NewRequest("list", "page", None)>>) /\ last' = sent'
           ELSE net' = Without(i) /\ UNCHANGED <<sent, last>>
        /\ UNCHANGED <<target, form, asked, dropped, page, ready, shown, current, serverVars>>

DeliverLimiter(i) ==
    /\ Answered(i, {"limiter"})
    /\ Closed("setRate")
    /\ net' = Without(i)
    /\ UNCHANGED <<sent, bubble, target, form, asked, dropped, pageVars, serverVars>>

\* The connection is lost, before or after the request was processed.  The
\* error callback of SetRateModal does nothing.
Fail(i) ==
    LET r == net[i]
    IN  /\ net' = Without(i)
        /\ IF r.mounted /\ r.kind \in {"add", "remove", "addHost"}
           THEN Closed(r.from) /\ bubble' = IF r.from = "bubble" THEN {} ELSE bubble
           ELSE UNCHANGED <<visible, loading, bubble>>
        /\ dropped' = (dropped \/ (r.mounted /\ r.kind = "limiter"))
        /\ silent' = (silent \/ (r.kind \in {"add", "remove"} /\ r.answered))
        /\ UNCHANGED <<sent, target, form, asked, pageVars, server, limits>>

-----------------------------------------------------------------------------
Admin ==
    \/ \E p \in Pages : Navigate(p)
    \/ \E d \in Dialogs : ShowModal(d) \/ HandleCancel(d) \/ \E x \in Items : HandleOk(d, x)
    \/ \E x \in Items : ProxyClick(x) \/ ShowAddHost(x) \/ DeleteRow(x) \/ DeleteProxy(x)
    \/ CloseBubble
    \/ \E m \in Methods : ShowSetRate(m)
    \/ \E val \in Typed : Edit(form.typ, val)
    \/ \E typ \in {"qps", "concurrent"} : Edit(typ, form.val)

Server ==
    \/ \E i \in DOMAIN net : ServeList(i) \/ ServeMethodInfo(i) \/ ServeChange(i) \/ ServeLimiter(i)
    \/ \E x \in ItemsOf(page) : Elsewhere(x)

Answers ==
    \E i \in DOMAIN net : \/ DeliverInfo(i) \/ DeliverList(i) \/ DeliverMethodInfo(i)
                          \/ DeliverChange(i) \/ DeliverLimiter(i) \/ Fail(i)

Next == Admin \/ Server \/ Answers

Spec == Init /\ [][Next]_vars

-----------------------------------------------------------------------------
(***************************************************************************)
(* The list on the page is the server's, however changes, double clicks    *)
(* and refreshes interleave: when no answer is awaited, the latest refresh *)
(* is the one shown (not lost, not overtaken by an older answer) and the   *)
(* server has not changed behind the console's back (elsewhere, by a       *)
(* change it answered with an error, whose answer was lost or whose page   *)
(* had gone).                                                              *)
(***************************************************************************)
ShowsServer ==
    (/\ \A i \in DOMAIN net : net[i].mounted => net[i].kind \in {"info", "methodInfo", "limiter"}
     /\ current = last /\ ~silent) => shown = server

(***************************************************************************)
(* A dialog whose button shows confirmLoading waits for an answer that is  *)
(* still to come, and for one only, although it can be cancelled and       *)
(* opened again meanwhile.  AddHostModal never resets confirmLoading and   *)
(* SetRateModal not after a lost connection: they stay unusable until the  *)
(* page is left.                                                           *)
(***************************************************************************)
LoadingAwaitsOneAnswer ==
    \A d \in Dialogs :
        LET mine == {i \in DOMAIN net : net[i].mounted /\ net[i].from = d}
        IN  /\ Cardinality(mine) <= 1
            /\ mine # {} => loading[d]
            /\ loading[d] => mine # {} \/ d = "addHost" \/ (d = "setRate" /\ dropped)

\* The limiter before and after, with a burst that only counts under a limit.
SameLimit(k, l) ==
    /\ k.interval = l.interval /\ k.timeout = l.timeout
    /\ k.interval # 0 => k.burst = l.burst

\* Speeds which the dialog shows one too low.
Inexact(l) ==
    l.interval # 0 /\ Second % l.interval = 0 /\ Second \div l.interval \in RoundedDown

(***************************************************************************)
(* Confirming the dialog for limits without editing leaves the limit as it *)
(* is: the fields are those of the path in its title, and speed and        *)
(* timeout survive the way to the browser and back.  Not so when an answer *)
(* was late, lost or overtaken, when the limit was changed meanwhile, or   *)
(* for a speed that float64 rounds down.                                   *)
(***************************************************************************)
UneditedConfirmKeepsLimit ==
    [][\A i \in DOMAIN net :
          (/\ net[i].kind = "limiter" /\ net[i].own
           /\ page' = page /\ (i \notin DOMAIN net' \/ net'[i] # net[i]))
          => /\ net[i].fields.of = net[i].item
             /\ \/ SameLimit(limits[net[i].item], limits'[net[i].item])
                \/ limits[net[i].item] # net[i].fields.seen
                \/ Inexact(net[i].fields.seen)]_vars

(***************************************************************************)
(* "Get the token timeout in milliseconds", says the dialog: a request     *)
(* whose token is due within that time may wait for it and is admitted.    *)
(***************************************************************************)
TimeoutInMilliseconds ==
    \A m \in Methods : limits[m].timeout > 0 => MayAdmit(limits[m], limits[m].timeout)
=============================================================================
