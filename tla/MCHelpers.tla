------------------------------ MODULE MCHelpers ------------------------------
(* The helpers that do not use the event loop for TLC: the texts are those of *)
(* at most four parts, and those of four parts with one too many.           *)
EXTENDS Strings, Addresses, ExecuteCommand

Decimal == {Number(n) : n \in {0, 127, 128, 169, 224, 254, 255, 300, 513}}
Octal == {[aton |-> 169, stoul |-> 251], [aton |-> 255, stoul |-> 377]}
NoNumber == [aton |-> Bad, stoul |-> Bad]
Parts == Decimal \cup Octal \cup {NoNumber}

SomeTexts == UNION {[1..n -> Parts] : n \in 1..4}
               \cup {Append(four, NoNumber) : four \in [1..4 -> {Number(0), Number(255)}]}
SomeNetmasks == {<<255, 0, 0, 0>>, <<255, 255, 128, 0>>, <<169, 254, 255, 255>>}

NoCall == /\ original = <<>> /\ search = <<Blank>> /\ substitute = <<>>
          /\ text = <<>> /\ position = 0 /\ returned = TRUE

NoCommand == /\ parent = [t \in Callers |-> "returned"]
             /\ child = [t \in Callers |-> "none"]
             /\ readers = [t \in Callers |-> {}] /\ writers = readers
             /\ toSend = [t \in Callers |-> 0] /\ inPipe = toSend
             /\ result = [t \in Callers |-> -1]
             /\ interrupted = {} /\ astray = {} /\ overlapped = FALSE

Init == \/ StringsInit /\ NoInput /\ NoCommand
        \/ NoCall /\ AddressesInit /\ NoCommand
        \/ NoCall /\ NoInput /\ CommandInit
Next == \/ ReplaceStep /\ UNCHANGED <<addressVars, commandVars>>
        \/ CommandStep /\ UNCHANGED <<stringVars, addressVars>>
vars == <<stringVars, addressVars, commandVars>>
Spec == Init /\ [][Next]_vars /\ WF_vars(ReplaceStep /\ UNCHANGED <<addressVars, commandVars>>)
=============================================================================
