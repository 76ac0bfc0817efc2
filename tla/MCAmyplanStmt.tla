--------------------------- MODULE MCAmyplanStmt ---------------------------
(* Instances of AmyplanStmt for TLC. *)
EXTENDS AmyplanStmt

Branching == {"if", "elseif", "else", "endif"}
PlainLoops == {"while", "endwhile", "once", "endonce", "for", "endfor"}
Jumps == {"break", "continue"}

KindsPlain == Branching \cup PlainLoops \cup Jumps \cup {"expr"}
KindsFrames == {"call", "var", "return", "fordict", "endfor", "while", "endwhile",
                "if", "else", "endif"} \cup Jumps
KindsNested == {"fordict", "endfor", "while", "endwhile", "break"}
=============================================================================
