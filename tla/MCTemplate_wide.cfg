SPECIFICATION Spec
CONSTANT Sources <- WideTexts
PROPERTY TextAdvances
CHECK_DEADLOCK FALSE
