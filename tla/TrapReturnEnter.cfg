CONSTANT Tasks = {t1, t2}
SPECIFICATION Spec
INVARIANT EretEntersUser
