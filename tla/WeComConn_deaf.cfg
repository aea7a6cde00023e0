CONSTANT MaxMessages = 1
SPECIFICATION Spec
CHECK_DEADLOCK FALSE
PROPERTY BotSubscribes
