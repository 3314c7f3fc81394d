----------------------------- MODULE MCGateway -----------------------------
EXTENDS Gateway, TLC

CONSTANTS u1, u2

\* The values of Core's stamp, and of the protocol entries, that the lines use.
Stamped(kind, user) == [kind |-> kind, user |-> user]
ByUser(user) == Stamped("user", user)
Unstamped == Stamped("absent", Absent)

NoMeta == [kind |-> "absent", version |-> "absent", capabilities |-> "absent",
           info |-> "absent", caller |-> Unstamped]

Modern(caller) == [kind |-> "good", version |-> "good", capabilities |-> "good",
                   info |-> "absent", caller |-> caller]
Plain(caller) == [Modern(caller) EXCEPT !.version = "absent", !.capabilities = "absent"]

NoTool == [tool |-> "absent", args |-> {}, row |-> FALSE, large |-> FALSE, target |-> 0]
Tool(tool, target) == [NoTool EXCEPT !.tool = tool, !.args = Required(tool), !.target = target]

Frame(method, meta) ==
    [form |-> "frame", id |-> TRUE, method |-> method, meta |-> meta, call |-> NoTool]
Ask(meta, call) == [Frame("tools/call", meta) EXCEPT !.call = call]

MCLines ==
    {[Frame("initialize", NoMeta) EXCEPT !.form = "garbage"],
     [Ask(Modern(ByUser(u1)), Tool("init_workspace", 0)) EXCEPT !.id = FALSE],
     Frame("initialize", NoMeta),
     Frame("initialize", Modern(Unstamped)),
     Ask(Plain(Unstamped), Tool("list_experiments", 0)),
     Ask(Modern(Stamped("unresolved", Absent)), Tool("init_workspace", 0)),
     Ask(Modern(ByUser(u1)), Tool("init_workspace", 0)),
     Ask(Modern(ByUser(u2)), Tool("next_variant", 1)),
     Ask(Modern(ByUser(u1)), Tool("finish_campaign", 1)),
     Ask(Modern(ByUser(u1)), Tool("run", 1))}

Hop1(route, user) ==
    [bearer |-> TRUE, route |-> route, headers |-> [user |-> user, agent |-> FALSE],
     id |-> TRUE, improvement |-> "none", target |-> 1]

\* A campaign that an earlier session left active.
MCExisting == <<u1>>

MCAsks ==
    {[Hop1("workspace", u1) EXCEPT !.bearer = FALSE],
     [Hop1("workspace", Absent) EXCEPT !.headers.agent = TRUE],
     [Hop1("workspace", u2) EXCEPT !.improvement = "bad"],
     Hop1("workspace", u1),
     Hop1("workspace", Absent),
     Hop1("status", Absent),
     [Hop1("campaign", u2) EXCEPT !.id = FALSE],
     Hop1("analyze", u1)}
=============================================================================
