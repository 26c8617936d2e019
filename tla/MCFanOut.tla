------------------------------- MODULE MCFanOut -------------------------------
(* Values of the constants of FanOut for TLC. *)
EXTENDS FanOut, TLC

\* Amounts count half cents, and a column keeps them rounded half away from zero.
MCStored == [a \in Amounts \cup {0} |-> 2 * ((a + 1) \div 2)]

\* The four groups share the topic and nothing else, so each runs by itself.
OneAtATime == {{g} : g \in Groups}

\* What the fan-out is written for: every claim has one adjudication.
OneEach == CHOOSE f \in [Adjudications -> Claims] :
              \A a, b \in Adjudications : a # b => f[a] # f[b]

\* What the endpoint and the App allow: a claim with several.
AllOfOne == [a \in Adjudications |-> CHOOSE c \in Claims : TRUE]
=============================================================================
