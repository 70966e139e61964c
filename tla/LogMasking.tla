----------------------------- MODULE LogMasking -----------------------------
(***************************************************************************)
(* What LogBehavior writes of a command into its log entry: maskPayload    *)
(* with sanitize, whose recursion ends at MAX_DEPTH = 2 and is unrolled    *)
(* here.  A value is a string, an array or an object; of a string it       *)
(* matters only whether it is too long and whether it is an address.       *)
(***************************************************************************)
EXTENDS Naturals, Sequences

PII_FIELDS == {"email", "githubAccessToken", "accessToken", "token", "secretKey", "password"}
MAX_ARRAY_LENGTH == 5

Text(t) == [type |-> "string", text |-> t]
Array(items) == [type |-> "array", items |-> items]
Object(fields) == [type |-> "object", fields |-> fields]

(* "long" is longer than MAX_STRING_LENGTH.                                *)
Shorten(v) == IF v.text = "long" THEN Text("cut") ELSE v

(* An "address" has something on both sides of its @.                      *)
Mask(key, v) ==
    IF key = "email" /\ v = Text("address") THEN Text("masked address") ELSE Text("[REDACTED]")

(* What becomes of the value v under a key; inner is v sanitized.          *)
Field(key, v, exclude, inner) ==
    IF key \in exclude THEN Text("[excluded]")
    ELSE IF key \in PII_FIELDS THEN Mask(key, v)
    ELSE inner

Items(inner) ==
    IF Len(inner) > MAX_ARRAY_LENGTH
    THEN Append(SubSeq(inner, 1, MAX_ARRAY_LENGTH), Text("more"))
    ELSE inner

Members(v) ==
    CASE v.type = "string" -> <<>>
      [] v.type = "array"  -> v.items
      [] v.type = "object" -> v.fields

(* The call of sanitize for v, given what its calls for the members return.*)
Sanitize(v, exclude, inner) ==
    CASE v.type = "string" -> Shorten(v)
      [] v.type = "array"  -> Array(Items(inner))
      [] v.type = "object" ->
            Object([key \in DOMAIN v.fields |-> Field(key, v.fields[key], exclude, inner[key])])

AtMaxDepth(v) == IF v.type = "string" THEN Shorten(v) ELSE Text("[nested]")

(* Faulty variant: only the fields of the command itself are masked.       *)
NestedAsIs(v) == v

(* logExclude is not handed down.                                          *)
Nested(v) ==
    Sanitize(v, {}, [x \in DOMAIN Members(v) |-> AtMaxDepth(Members(v)[x])])

MaskPayload(command, logExclude) ==
    Sanitize(command, logExclude,
             [x \in DOMAIN Members(command) |-> Nested(Members(command)[x])])

-----------------------------------------------------------------------------
(* Commands with secrets under PII fields, and nowhere else, at every      *)
(* depth the log shows and one below, in objects and in arrays that are    *)
(* too long and not.                                                       *)
Secrets == {Text("address"), Text("secret"), Object([name |-> Text("secret")])}

ObjectsOver(values) ==
    {Object([x \in {"name", key} |-> IF x = key THEN s ELSE v]) :
        key \in {"email", "token"}, s \in Secrets, v \in values}

ArraysOver(values) ==
    {Array([j \in 1 .. n |-> v]) : n \in {1, MAX_ARRAY_LENGTH, MAX_ARRAY_LENGTH + 1}, v \in values}

Strings == {Text("name"), Text("long")}
Level3 == Strings \cup ObjectsOver(Strings)
Level2 == Strings \cup ObjectsOver(Level3) \cup ArraysOver(Level3)
Commands == ObjectsOver(Level2)

(* The strings in a value, down to where a log entry has to end.           *)
Strings0(v) == IF v.type = "string" THEN {v.text} ELSE {"below the limit"}
Strings1(v) ==
    IF v.type = "string" THEN {v.text}
    ELSE UNION {Strings0(Members(v)[x]) : x \in DOMAIN Members(v)}
LoggedStrings(v) == UNION {Strings1(Members(v)[x]) : x \in DOMAIN Members(v)}

(* What a log entry has to look like, for all of them.                     *)
EveryPayloadIsMasked ==
    \A command \in Commands : \A logExclude \in {{}, {"name"}, {"token"}} :
        LET logged == MaskPayload(command, logExclude)
            name == command.fields["name"]
        IN  /\ LoggedStrings(logged) \cap {"address", "secret", "long", "below the limit"} = {}
            /\ \A key \in logExclude \cap DOMAIN command.fields :
                  logged.fields[key] = Text("[excluded]")
            /\ name.type = "array" => logExclude = {"name"} \/ Len(logged.fields["name"].items) <= 6
            /\ name = Text("name") /\ "name" \notin logExclude => logged.fields["name"] = name
=============================================================================
