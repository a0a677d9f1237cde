------------------------------ MODULE Autoconfig ------------------------------
(***************************************************************************)
(* Finding the servers of an address (autoconfig/autoconfig_lookup.js):    *)
(* a file of our own, then the hosts of the domain, the ISP database and   *)
(* its MX record side by side, then what is known of the MX domain, then   *)
(* an Autodiscover endpoint.  What is fetched is parsed in the main thread *)
(* (worker-support/configparser-main.js): texts go there and configs come  *)
(* back in order, and an answer does not say which text it is of.  The     *)
(* lookup is a task, so that one runs at a time.                           *)
(***************************************************************************)
EXTENDS Naturals, Sequences, SequencesExt

CONSTANTS
    MaxLookups,     \* addresses looked up
    MaxTexts        \* requests that are answered with a text

Hosted  == {"subdomain", "wellknown", "ispdb"}     \* asked for together, with "mx"
Texts   == {"local", "mxLocal", "mxIspdb"} \cup Hosted
Probes  == {"subdir", "autodiscover"}
Sources == Texts \cup Probes \cup {"mx"}

\* The order in which a config is preferred.
Preferred == <<"local", "subdomain", "wellknown", "ispdb", "mxLocal", "mxIspdb", "subdir",
               "autodiscover">>

VARIABLES
    lookup,     \* the number of the lookup
    group,      \* what is being asked: a group of sources; "idle" before and after
    request,    \* of each source: "none", "sent", "parsing", "resolved", "rejected"
    value,      \* what a resolved request has: <<>>, or the config <<lookup, source>>
    posted,     \* the texts with the parser, <<lookup, source, whether they have a config>>
    found,      \* what the lookup came to: <<>> or a config
    gave,       \* history: the sources of this lookup that have a config
    overlapped, \* history: a text was posted with another one at the parser
    texts       \* texts so far

lookupVars == <<lookup, group, request, value, posted, found, gave, overlapped, texts>>

GroupOf == [idle |-> {}, local |-> {"local"}, hosted |-> Hosted \cup {"mx"},
            mxLocal |-> {"mxLocal"}, mxIspdb |-> {"mxIspdb"}, probe |-> Probes]

LookupTypeOK ==
    /\ lookup \in 0..MaxLookups
    /\ group \in DOMAIN GroupOf
    /\ request \in [Sources -> {"none", "sent", "parsing", "resolved", "rejected"}]
    /\ \A s \in Sources : value[s] # <<>> => request[s] = "resolved"
    /\ gave \subseteq Sources
    /\ overlapped \in BOOLEAN

LookupInit ==
    /\ lookup = 0 /\ group = "idle"
    /\ request = [s \in Sources |-> "none"]
    /\ value = [s \in Sources |-> <<>>]
    /\ posted = <<>> /\ found = <<>> /\ gave = {} /\ overlapped = FALSE /\ texts = 0

\* The config of the first of these sources that has one, and <<>> if none does.
First(seq, val) ==
    LET has == {i \in DOMAIN seq : val[seq[i]] # <<>>}
    IN  IF has = {} THEN <<>> ELSE val[seq[Min(has)]]

\* The requests of a group go out, and what was asked before is let go of.
Ask(g) ==
    /\ group' = g
    /\ request' = [s \in Sources |-> IF s \in GroupOf[g] THEN "sent" ELSE "none"]
    /\ value' = [s \in Sources |-> <<>>]

\* learnAboutAccount of the next address, which is of another domain.
Learn ==
    /\ group = "idle" /\ lookup < MaxLookups
    /\ lookup' = lookup + 1
    /\ Ask("local")
    /\ found' = <<>> /\ gave' = {}
    /\ UNCHANGED <<posted, overlapped, texts>>

\* _getXmlConfig, onload: the text goes to the parser, and from then on whatever it
\* answers is taken.  The text has a usable config or not.
Loads(s) ==
    /\ s \in Texts /\ request[s] = "sent" /\ texts < MaxTexts
    /\ texts' = texts + 1
    /\ \E has \in BOOLEAN :
        /\ posted' = Append(posted, <<lookup, s, has>>)
        /\ gave' = IF has THEN gave \cup {s} ELSE gave
    /\ request' = [request EXCEPT ![s] = "parsing"]
    /\ overlapped' = (overlapped \/ posted # <<>>)
    /\ UNCHANGED <<lookup, group, value, found>>

\* A time-out, an error or a status that is no success: xhr.ontimeout, xhr.onerror.
Fails(s) ==
    /\ request[s] = "sent"
    /\ request' = [request EXCEPT ![s] = "rejected"]
    /\ UNCHANGED <<lookup, group, value, posted, found, gave, overlapped, texts>>

\* _getMX names another domain or none; _checkAutodiscoverUrl is asked for credentials.
Answers(s) ==
    /\ s \in Probes \cup {"mx"} /\ request[s] = "sent"
    /\ request' = [request EXCEPT ![s] = "resolved"]
    /\ \/ value' = [value EXCEPT ![s] = <<lookup, s>>] /\ gave' = gave \cup {s}
       \/ s = "mx" /\ UNCHANGED <<value, gave>>
    /\ UNCHANGED <<lookup, group, posted, found, overlapped, texts>>

\* parseAccountCommon has done the first text, and every request that listens takes it.
Parsed ==
    /\ posted # <<>>
    /\ LET text   == Head(posted)
           config == IF text[3] THEN <<text[1], text[2]>> ELSE <<>>
       IN  /\ request' = [s \in Sources |-> IF request[s] = "parsing" THEN "resolved" ELSE request[s]]
           /\ value' = [s \in Sources |-> IF request[s] = "parsing" THEN config ELSE value[s]]
    /\ posted' = Tail(posted)
    /\ UNCHANGED <<lookup, group, found, gave, overlapped, texts>>

\* What a group came to: _getHostedAndISPDBConfigs and _probeForAutodiscover wait for all
\* of their requests, failed or not.  A config of the domain's own goes before the ISPDB's.
ConfigIspdbFirst ==
    CASE group = "hosted" -> First(<<"ispdb", "subdomain", "wellknown">>, value)
      [] group = "probe"  -> First(<<"subdir", "autodiscover">>, value)
      [] OTHER            -> value[group]
Config ==
    CASE group = "hosted" -> First(<<"subdomain", "wellknown", "ispdb">>, value)
      [] group = "probe"  -> First(<<"subdir", "autodiscover">>, value)
      [] OTHER            -> value[group]

\* The group to ask when this one has no config.
Following ==
    CASE group = "local"   -> "hosted"
      [] group = "hosted"  -> IF value["mx"] # <<>> THEN "mxLocal" ELSE "probe"
      [] group = "mxLocal" -> "mxIspdb"
      [] group = "mxIspdb" -> "probe"
      [] group = "probe"   -> "idle"

\* victory, or the next group.
Proceed ==
    /\ group # "idle"
    /\ \A s \in GroupOf[group] : request[s] \in {"resolved", "rejected"}
    /\ found' = Config
    /\ Ask(IF Config # <<>> THEN "idle" ELSE Following)
    /\ UNCHANGED <<lookup, posted, gave, overlapped, texts>>

LookupNext ==
    \/ Learn \/ Parsed \/ Proceed
    \/ \E s \in Sources : Loads(s) \/ Fails(s) \/ Answers(s)

-----------------------------------------------------------------------------
(* Properties *)

\* A lookup comes to the config of the source that is preferred among those of its
\* domain that have one, whichever of them answered first, and to none only if none of
\* them has one, as long as the parser was never given a text with another one at hand:
\* from then on an answer may be taken for another, by a later lookup as well.
FoundIsPreferred ==
    group = "idle" /\ lookup > 0 /\ ~overlapped =>
        LET able == {i \in DOMAIN Preferred : Preferred[i] \in gave}
        IN  found = IF able = {} THEN <<>> ELSE <<lookup, Preferred[Min(able)]>>

\* A request that waits for the parser has its text there still, so that it is answered,
\* by its own text at the latest; one that is resolved for another's text never hangs.
WaitingIsServed ==
    \A s \in Texts : request[s] = "parsing" =>
        \E i \in 1..Len(posted) : posted[i][1] = lookup /\ posted[i][2] = s

LookupIsTrue == LookupTypeOK /\ FoundIsPreferred /\ WaitingIsServed

=============================================================================
