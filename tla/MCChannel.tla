------------------------------ MODULE MCChannel ------------------------------
(* Channel for TLC: which readings and requests a run plays with. *)
EXTENDS Channel, TLC

\* The entities every firmware wires, and the three newer ones.
Required == {"command", "angle_offset", "bearing", "input", "interval", "mode", "inputs"}
OldAndNew == {Required, Required \cup CapsFields}

Only(published) == [f \in Fields |-> IF f \in DOMAIN published THEN published[f] ELSE {}]

\* Capabilities: a count that rounds to zero, a small board and a large one, a word
\* without auto, a word that does not parse.
CapsReadings == Only([caps_input_count |-> {1, 8, 64}, caps_features |-> {{"off"}, Garbled}])

\* Live values: rounding at the half, isolation, an unknown mode, a list that
\* does not parse.
LiveReadings == Only([input |-> {0, 2, 6}, bearing |-> {-2, NoReading}, mode |-> {"auto", "scan"},
                      inputs |-> {<<1, 2>>, Garbled}, caps_circle_count |-> {32}])

Ask(verb, inputs) == [verb |-> verb, inputs |-> inputs]
CapsRequests == {Ask("auto", <<2, 1>>), Ask("auto", <<1, 2>>),
                 Ask("plan", <<11, 2>>), Ask("off", <<>>)}
LiveRequests == {Ask("set", <<1>>), Ask("angle", <<>>)}

Symmetry == Permutations(Callers) \cup Permutations(Callbacks)
=============================================================================
