---------------------------- MODULE MCConfigLoad -----------------------------
(* Files that meet every rule or break one, over two variables, one of which *)
(* may refer to the other, and one password file.                           *)
EXTENDS ConfigLoad

CONSTANTS V, W

MCWord == {"", "pw", "true"}
MCSetting == {"", "a", "b", "0.0.0.0", "/metrics", "10s", "8s", "0s", "ok", "bad"}

Native == [raw |-> Empty, val |-> FALSE]

Entry(n) == [name |-> n, endpoint |-> Literal("pw"), port |-> 0, username |-> Literal("pw"),
             password |-> Literal("pw"), passwordFile |-> FALSE, skip |-> Native]

With(cls) == [host |-> "", port |-> 0, uri |-> "", interval |-> "", timeout |-> "",
              push |-> [enabled |-> FALSE, endpoint |-> "", interval |-> ""],
              tracing |-> [enabled |-> FALSE, endpoint |-> "", rate |-> 0],
              clusters |-> cls]

Plain == With(<<Entry("a")>>)
ByFile == [Entry("a") EXCEPT !.password = Empty, !.passwordFile = TRUE]

Valid == {
    Plain,
    With(<<Entry("a"), [Entry("b") EXCEPT !.port = 65535]>>),
    With(<<[Entry("a") EXCEPT !.password = Reference(V, {})]>>),
    With(<<[Entry("a") EXCEPT !.password = Reference(V, {""})]>>),
    With(<<[Entry("a") EXCEPT !.endpoint = Reference(V, {}), !.username = Reference(W, {"pw"})]>>),
    With(<<[Entry("a") EXCEPT !.skip = [raw |-> Reference(V, {"true"}), val |-> FALSE]], ByFile>>),
    With(<<ByFile, [Entry("b") EXCEPT !.skip = [raw |-> Literal("true"), val |-> FALSE]]>>),
    [Plain EXCEPT !.interval = "0s", !.push = [enabled |-> TRUE, endpoint |-> "ok", interval |-> ""],
                  !.tracing = [enabled |-> TRUE, endpoint |-> "ok", rate |-> 100]]}

Invalid == {
    With(<<>>),
    With(<<Entry("")>>),
    With(<<[Entry("a") EXCEPT !.port = 65536]>>),
    With(<<[Entry("a") EXCEPT !.password = Empty]>>),
    [Plain EXCEPT !.port = 65536],
    [Plain EXCEPT !.timeout = "bad"],
    [Plain EXCEPT !.push = [enabled |-> TRUE, endpoint |-> "bad", interval |-> ""]],
    [Plain EXCEPT !.tracing = [enabled |-> TRUE, endpoint |-> "ok", rate |-> 101]]}

MCFile == Valid \cup Invalid
=============================================================================
