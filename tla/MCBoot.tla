------------------------------- MODULE MCBoot -------------------------------
EXTENDS Boot

\* Addresses of which every byte differs, so that none can stand for another
MCLayouts == {
    [gdtArray |-> <<96, 161, 34, 131, 255, 254, 253, 252>>,
     idt_entries |-> <<128, 162, 35, 132, 255, 254, 253, 252>>,
     globalTss |-> <<160, 163, 36, 133, 251, 250, 249, 248>>,
     divideError |-> <<1, 18, 52, 128, 247, 246, 245, 244>>,
     doubleFault |-> <<2, 19, 53, 129, 243, 242, 241, 240>>,
     generalProtection |-> <<3, 20, 54, 130, 239, 238, 237, 236>>,
     pageFault |-> <<4, 21, 55, 131, 235, 234, 233, 232>>,
     timerInterruptAsm |-> <<5, 22, 56, 132, 231, 230, 229, 228>>]}

MCProgram == <<"idleThread", "shell", "editor">>

\* One user thread raises any exception, or a thread of the kernel and one of the
\* users' are in double faults, while others run.
MCFaultPlans ==
    {{<<"shell", vector>>} : vector \in Faults} \cup {{"idleThread", "editor"} \X {8}}
=============================================================================
