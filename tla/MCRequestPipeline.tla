------------------------- MODULE MCRequestPipeline -------------------------
(* Two requests with every kind of input meet in one bucket or two, one model *)
(* and two days.                                                            *)
EXTENDS RequestPipeline

CONSTANTS r1, r2, u1, u2, nobody, known, unknown

In1(route, user, model, body, stops) ==
    [route |-> route, user |-> user, model |-> model, body |-> body,
     prompt |-> 1, max_tokens |-> 2, stops |-> stops]

TwoRequests == {r1, r2}

BothUsers == {u1, u2}
BothModels == {known, unknown}
KnownModel == {known}
Changes == {<<known, "loading">>, <<known, "ready">>}

EveryInput ==
    {In1("chat", u1, known, body, FALSE) : body \in {"ok", "malformed", "flagged", "special"}}
    \cup {In1("chat", u1, known, "ok", TRUE), In1("chat", nobody, known, "ok", FALSE)}
    \cup {In1("chat", u2, m, "ok", FALSE) : m \in BothModels}
    \cup {In1("stream", u1, m, "ok", TRUE) : m \in BothModels}
    \cup {In1("embed", u2, m, "ok", FALSE) : m \in BothModels}
    \cup {In1("embed", u2, known, body, FALSE) : body \in {"malformed", "flagged", "special"}}
    \cup {In1("model", u1, m, "ok", FALSE) : m \in BothModels}
    \cup {In1(route, u1, known, "ok", FALSE) : route \in {"usage", "models"}}
    \cup {In1(route, nobody, known, "ok", FALSE) : route \in Public}
=============================================================================
