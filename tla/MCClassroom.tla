---------------------------- MODULE MCClassroom ----------------------------
(* Classroom on a small instance. *)
EXTENDS Classroom

CONSTANTS s1, s2

\* Both students absent, and a roll that corrects the first one.
MCRolls == {{<<s1, "ABSENT">>, <<s2, "ABSENT">>},
            {<<s1, "PRESENT">>}}
=============================================================================
