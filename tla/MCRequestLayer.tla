---------------------------- MODULE MCRequestLayer ----------------------------
EXTENDS RequestLayer, TLC

CONSTANTS r1, r2, r3, r4, gen, verify

Error(fds, status, marker, transport) ==
  [fds |-> fds, status |-> status, marker |-> marker, transport |-> transport]

RateLimit == Error(FALSE, 429, FALSE, FALSE)
Throttled == Error(FALSE, 429, TRUE, FALSE)     \* "Too many tokens, please wait"
Refused == Error(FALSE, 400, FALSE, FALSE)
BadKey == Error(FALSE, 401, FALSE, FALSE)
Dropped == Error(FALSE, 0, FALSE, TRUE)
NoFiles == Error(TRUE, 0, FALSE, FALSE)

AllErrors == {RateLimit, Throttled, Refused, BadKey, Dropped, NoFiles}
OneOfEach == {RateLimit, Refused, BadKey}
OnlyTransient == {RateLimit}

\* Three requests contend for one lane; r3, whose prompt is too long, has its own.
MCLaneOf == [r \in Requests |-> IF r = r3 THEN verify ELSE gen]
OneWide == [l \in Lanes |-> 1]
TwoWide == [l \in Lanes |-> 2]

\* MaxLen 8, Margin 2, MaxTokens 3: room to spare, room for two tokens, none
\* left exactly, and a prompt nobody counted.
MCPrompt == [r \in Requests |->
  CASE r = r1 -> 1 [] r = r2 -> 4 [] r = r3 -> 6 [] OTHER -> Unknown]
=============================================================================
