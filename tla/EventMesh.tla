----------------------------- MODULE EventMesh -----------------------------
(***************************************************************************)
(* benchmark5, the program eventmesh: input.c loads a configuration with   *)
(* its rules (rules.c), plugin.c makes a context of the profile and turns  *)
(* the subscriptions into callbacks of the dispatcher, and dispatcher.c    *)
(* offers every message to every subscription in order.                    *)
(*                                                                         *)
(* A filter is a PluginHandler called through a DispatchCallback: it takes *)
(* the message for its plugin, and the first eight bytes of the message,   *)
(* sequence and payload_len, for the pointer to its profile.  No payload   *)
(* is empty, so that this is an address between 4 GiB and 640 GiB, where a *)
(* 64 bit build has nothing mapped: the call never returns, and the rules  *)
(* a filter would go through are never looked at.                          *)
(***************************************************************************)
EXTENDS Integers, Sequences, FiniteSets

CONSTANTS
    Name,          \* names of profiles
    Topic, Any,    \* topics; "*"
    Rule,          \* what a rule line says: topic, tag, action, flags
    None,          \* no profile yet
    MaxSpecs, MaxMessages,  \* bounds: subscribe and message lines
    MaxLines                \* bound: lines of any kind

ASSUME TopicAssumption == Any \in Topic
ASSUME NoneAssumption == None \notin Name

VARIABLES
    profile, closed, rules,      \* Config: profile_name, fail_closed, the rule book,
    specs, messages,             \* plugin_specs, messages
    profileLines,                \* the profile lines read: history, kept by no code
    context,                     \* the profile of the one PluginContext
    subs,                        \* DispatchContext.subscriptions
    phase,                       \* where the program is
    msg, sub,                    \* the loops: next message, next spec or subscription
    delivered, dropped, status   \* DispatchContext, and what main will return

config == <<profile, closed, rules, specs, messages, profileLines>>
made   == <<context, subs>>
counts == <<delivered, dropped, status>>
vars   == <<config, made, phase, msg, sub, counts>>

Init == /\ profile = None /\ closed = FALSE /\ rules = <<>>
        /\ specs = <<>> /\ messages = <<>> /\ profileLines = <<>>
        /\ context = None /\ subs = <<>>
        /\ phase = "load" /\ msg = 1 /\ sub = 1
        /\ delivered = 0 /\ dropped = 0 /\ status = 0

-----------------------------------------------------------------------------
\* config_load, line by line.  The lines of each kind come in any number and
\* any order; the last profile line counts, and subscribe lines may name any
\* profile, wherever they are.
Line == /\ phase = "load"
        /\ Len(profileLines) + Len(rules) + Len(specs) + Len(messages) < MaxLines
        /\ UNCHANGED <<context, subs, phase, msg, sub, counts>>

Mode == {"none", "fail_open", "fail_closed"}

\* Seeded fault: a profile line without a mode leaves the mode as it is.
LoadProfile_KeepMode(n, m) ==
    /\ Line
    /\ profile' = n
    /\ closed' = IF m = "none" THEN closed ELSE m = "fail_closed"
    /\ profileLines' = Append(profileLines, [name |-> n, mode |-> m])
    /\ UNCHANGED <<rules, specs, messages>>

\* parse_profile
LoadProfile(n, m) ==
    /\ Line
    /\ profile' = n /\ closed' = (m = "fail_closed")
    /\ profileLines' = Append(profileLines, [name |-> n, mode |-> m])
    /\ UNCHANGED <<rules, specs, messages>>

\* parse_rule, rulebook_add
LoadRule(rule) ==
    /\ Line
    /\ rules' = Append(rules, rule)
    /\ UNCHANGED <<profile, closed, specs, messages, profileLines>>

\* parse_subscribe, plugin_specs_add
LoadSubscribe(n, t, filter) ==
    /\ Line /\ Len(specs) < MaxSpecs
    /\ specs' = Append(specs, [name |-> n, topic |-> t, filter |-> filter])
    /\ UNCHANGED <<profile, closed, rules, messages, profileLines>>

\* parse_message, message_list_push
LoadMessage(t) ==
    /\ Line /\ Len(messages) < MaxMessages
    /\ messages' = Append(messages, t)
    /\ UNCHANGED <<profile, closed, rules, specs, profileLines>>

\* die: the process is over, with what it has allocated.
Die == phase' = "died" /\ UNCHANGED <<config, made, msg, sub, counts>>

\* A directive that is unknown or malformed, an action or a mode nobody knows,
\* a number that is none, a text that is too long.
LoadFatal == phase = "load" /\ Die

Complete == profile # None /\ messages # <<>> /\ specs # <<>>

LoadEnd ==
    /\ phase = "load" /\ Complete
    /\ phase' = "create"
    /\ UNCHANGED <<config, made, msg, sub, counts>>

LoadRejects == phase = "load" /\ ~Complete /\ Die

-----------------------------------------------------------------------------
\* plugin_context_create: a context, its profile, and a copy of the rules.
CreateContext ==
    /\ phase = "create"
    /\ context' = [name |-> profile, closed |-> closed, rules |-> rules]
    /\ phase' = "register"
    /\ UNCHANGED <<config, subs, msg, sub, counts>>

\* Seeded fault: subscriptions of other profiles are passed over.
Register_Skip ==
    /\ phase = "register" /\ sub <= Len(specs)
    /\ subs' = IF specs[sub].name = context.name
               THEN Append(subs, [topic |-> specs[sub].topic, filter |-> specs[sub].filter])
               ELSE subs
    /\ sub' = sub + 1
    /\ UNCHANGED <<config, context, phase, msg, counts>>

\* plugin_register_all: the one context there is must have the spec's name.
Register ==
    /\ phase = "register" /\ sub <= Len(specs)
    /\ specs[sub].name = context.name
    /\ subs' = Append(subs, [topic |-> specs[sub].topic, filter |-> specs[sub].filter])
    /\ sub' = sub + 1
    /\ UNCHANGED <<config, context, phase, msg, counts>>

RegisterFatal ==
    /\ phase = "register" /\ sub <= Len(specs)
    /\ specs[sub].name # context.name
    /\ Die

RegisterDone ==
    /\ phase = "register" /\ sub > Len(specs)
    /\ phase' = "dispatch" /\ sub' = 1
    /\ UNCHANGED <<config, made, msg, counts>>

-----------------------------------------------------------------------------
\* Seeded fault: a subscription to "*" is compared like any other.
TopicMatches_NoAny(s, t) == s.topic = t

\* topic_matches.  A message whose own topic reads "*" is nothing special.
TopicMatches(s, t) == s.topic = Any \/ s.topic = t

\* dispatcher_run and dispatch_one: the subscription the loop has come to.
Offering == phase = "dispatch" /\ msg <= Len(messages) /\ sub <= Len(subs)

PassOver ==
    /\ Offering /\ ~TopicMatches(subs[sub], messages[msg])
    /\ sub' = sub + 1
    /\ UNCHANGED <<config, made, phase, msg, counts>>

\* dispatcher_audit_callback returns 0 whatever the message.
AuditResult == 0

CallAudit ==
    /\ Offering /\ TopicMatches(subs[sub], messages[msg]) /\ ~subs[sub].filter
    /\ IF AuditResult = 0
       THEN delivered' = delivered + 1 /\ UNCHANGED <<dropped, status>>
       ELSE dropped' = dropped + 1 /\ status' = AuditResult /\ UNCHANGED delivered
    /\ sub' = sub + 1
    /\ UNCHANGED <<config, made, phase, msg>>

\* Seeded fault: the filter returns, and what it returns is 0.
CallFilter_Returns ==
    /\ Offering /\ TopicMatches(subs[sub], messages[msg]) /\ subs[sub].filter
    /\ delivered' = delivered + 1
    /\ sub' = sub + 1
    /\ UNCHANGED <<config, made, phase, msg, dropped, status>>

\* plugin_filter_handler reads its profile through the bytes of the message.
CallFilter ==
    /\ Offering /\ TopicMatches(subs[sub], messages[msg]) /\ subs[sub].filter
    /\ phase' = "faulted"
    /\ UNCHANGED <<config, made, msg, sub, counts>>

NextMessage ==
    /\ phase = "dispatch" /\ msg <= Len(messages) /\ sub > Len(subs)
    /\ msg' = msg + 1 /\ sub' = 1
    /\ UNCHANGED <<config, made, phase, counts>>

\* main: plugin_context_destroy, dispatcher_free, config_free, and the status.
Exit ==
    /\ phase = "dispatch" /\ msg > Len(messages)
    /\ phase' = "exited"
    /\ UNCHANGED <<config, made, msg, sub, counts>>

-----------------------------------------------------------------------------
Load ==
    \/ \E n \in Name, m \in Mode : LoadProfile(n, m)
    \/ \E rule \in Rule : LoadRule(rule)
    \/ \E n \in Name, t \in Topic, f \in BOOLEAN : LoadSubscribe(n, t, f)
    \/ \E t \in Topic : LoadMessage(t)
    \/ LoadFatal \/ LoadEnd \/ LoadRejects

Run == \/ CreateContext \/ Register \/ RegisterFatal \/ RegisterDone
       \/ PassOver \/ CallAudit \/ CallFilter \/ NextMessage \/ Exit

Ended == phase \in {"exited", "died", "faulted"} /\ UNCHANGED vars

Next == Load \/ Run \/ Ended

\* One thread: once the configuration is read, the program goes on.
Spec == Init /\ [][Next]_vars /\ WF_vars(Run)

-----------------------------------------------------------------------------
\* Message i matches the j-th subscribe line of the file.
Pair(i, j) == specs[j].topic = Any \/ specs[j].topic = messages[i]

Pairs == {p \in (1 .. Len(messages)) \X (1 .. Len(specs)) : Pair(p[1], p[2])}

Before(p, i, j) == p[1] < i \/ (p[1] = i /\ p[2] < j)

\* Nothing is offered until every subscribe line has found its profile.  From
\* then on the counters are those of the matching pairs of a message and a
\* line before the place the loops have come to, in the order of the file,
\* none of them a filter; a run that exits has been through all pairs.
DeliveredExact ==
    /\ phase \in {"load", "create", "register", "died"} => delivered + dropped = 0
    /\ phase \in {"dispatch", "faulted", "exited"} =>
           /\ \A j \in DOMAIN specs : specs[j].name = profile
           /\ delivered = Cardinality({p \in Pairs : Before(p, msg, sub)})
           /\ dropped = 0 /\ status = 0
           /\ \A p \in Pairs : Before(p, msg, sub) => ~specs[p[2]].filter
    /\ phase = "exited" => \A p \in Pairs : Before(p, msg, sub)

\* The context every subscription is bound to is what the file says, whatever
\* the order of its lines: the profile and the mode are those of the last profile
\* line, also when that line gives no mode, and the rules are the whole rule book,
\* those before the profile line and those behind every subscribe line included.
LastProfile == profileLines[Len(profileLines)]

ContextExact ==
    context # None =>
        /\ context.name = LastProfile.name
        /\ context.closed = (LastProfile.mode = "fail_closed")
        /\ context.rules = rules

\* One message on the topic of a filter, at any place of the file, and the
\* program does not get through its messages.
FilteredMessageFaults ==
    (phase = "dispatch" /\ \E p \in Pairs : specs[p[2]].filter) ~> phase = "faulted"
=============================================================================
