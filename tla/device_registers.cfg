\* Every device of the machine.
SPECIFICATION RegSpec
INVARIANT RequestMeetsInterrupt
