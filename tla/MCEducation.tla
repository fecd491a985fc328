----------------------------- MODULE MCEducation -----------------------------
(* Two lessons of one item each, one visitor that may teach either rule at  *)
(* any time, two runs; the agent recalls one rule of two.                   *)
EXTENDS Education, TLC

CONSTANTS soft, fiscal, q08, q02, v

MCKey == {soft, fiscal}
MCTeacher == {q08, q02, v}
MCVisitor == {v}
MCCurriculum == << <<q08>>, <<q02>> >>
MCItemLesson == (q08 :> <<soft>>) @@ (q02 :> <<fiscal>>)
MCLesson == {<<soft>>, <<fiscal>>}
MCPolicies == <<"oracle", "agent">>
=============================================================================
